---- MODULE Spec2Model ----
(***************************************************************************)
(* A model of the DataTable module of src/visualization.js: the client-    *)
(* side tabular store (columns, rows, selection, sort state) together with *)
(* the part of the page it renders into that decides which user events can *)
(* happen (the header cells and the body rows of the last render).         *)
(*                                                                         *)
(* Conventions.                                                            *)
(*  - A JavaScript string is a sequence of one-character strings, so that  *)
(*    toLowerCase, template literals and the collator are computed and not *)
(*    assumed: "Ab" is <<"A", "b">> and '' is <<>>.                        *)
(*  - A JavaScript value handed to the module from outside is a record     *)
(*    [t, s, n]: t is the typeof-like tag, s the string when t = "string", *)
(*    n the integer when t = "number".                                     *)
(*  - Indices that cross the module's interface are JavaScript's, counted  *)
(*    from 0; At and the other helpers convert.                            *)
(*  - A row object is [id, cells]: id stands for the reference identity of *)
(*    the array object, which is what the selection Set is keyed by.       *)
(***************************************************************************)
EXTENDS Integers, Sequences, FiniteSets, TLC

\* ------------------------------------------------------------------ bounds

MaxRows == 2        \* rows of a table handed to loadData
MaxSortRows == 3    \* the same, in SpecSort and SpecSelect
MaxLoadRows == 2    \* the same, in SpecLoad
MaxCols == 3        \* columns are inserted up to this many
MaxFetchRows == 2   \* rows of a table whose profiles are fetched
MaxLabels == 3      \* labels of an applyFieldValues call

\* ------------------------------------------------------- JavaScript values

Str(s) == [t |-> "string", s |-> s, n |-> 0]
Num(n) == [t |-> "number", s |-> <<>>, n |-> n]
Undefined == [t |-> "undefined", s |-> <<>>, n |-> 0]
JsNull == [t |-> "null", s |-> <<>>, n |-> 0]

\* An array slot that was never assigned (row[5] = x on a shorter row leaves
\* such slots behind); reading it gives undefined.
Hole == <<"<empty slot>">>

Min(a, b) == IF a < b THEN a ELSE b
Max(a, b) == IF a > b THEN a ELSE b

At(seq, i) == seq[i + 1]

Reverse(seq) == [k \in 1..Len(seq) |-> seq[Len(seq) - k + 1]]

InRange(seq, i) == i >= 0 /\ i < Len(seq)

\* Array.prototype.splice(k, 0, x): k is clamped to the array's length
Splice(seq, k, x) ==
    LET p == Max(0, Min(k, Len(seq)))
    IN SubSeq(seq, 1, p) \o <<x>> \o SubSeq(seq, p + 1, Len(seq))

\* array[i] = v for an integer i: a negative i sets a property and no
\* element; an i past the end grows the array and leaves empty slots
SetIndex(seq, i, v) ==
    IF i < 0 THEN seq
    ELSE IF i < Len(seq) THEN [seq EXCEPT ![i + 1] = v]
    ELSE seq \o [k \in 1..(i - Len(seq)) |-> Hole] \o <<v>>

Digits == <<"0", "1", "2", "3", "4", "5", "6", "7", "8", "9">>

RECURSIVE NumberToString(_)
\* Number.prototype.toString() of a natural number
NumberToString(n) ==
    IF n < 10 THEN <<Digits[n + 1]>>
    ELSE NumberToString(n \div 10) \o <<Digits[(n % 10) + 1]>>

ToStr(v) == IF v.t = "number" THEN NumberToString(v.n) ELSE v.s

UpperChars == <<"A", "B", "C", "D", "E", "F", "G", "H", "I", "J", "K", "L", "M",
                "N", "O", "P", "Q", "R", "S", "T", "U", "V", "W", "X", "Y", "Z">>
LowerChars == <<"a", "b", "c", "d", "e", "f", "g", "h", "i", "j", "k", "l", "m",
                "n", "o", "p", "q", "r", "s", "t", "u", "v", "w", "x", "y", "z">>

LowerChar(c) ==
    IF \E k \in 1..26 : UpperChars[k] = c
    THEN LowerChars[CHOOSE k \in 1..26 : UpperChars[k] = c]
    ELSE c

\* String.prototype.toLowerCase
ToLowerCase(s) == [k \in 1..Len(s) |-> LowerChar(s[k])]

\* -------------------------------------------------------------- the state

VARIABLES
    columns,        \* the column labels
    rows,           \* the row objects, in display order
    selectedRows,   \* the ids of the row objects in the selection Set
    sortState,      \* [columnIndex, direction]
    headCells,      \* number of sortable header cells of the last render
    bodyRows,       \* ids of the rows the last render put in the table body
    last,           \* the call that led here: [op, args, ret, notify], args
                    \* being its arguments where a property reads them and
                    \* notify the 'datatable:change' events it dispatched
    exported,       \* the {columns, rows} object getDataForExport returned
                    \* last, as its caller holds it
    licensedUsernames, \* GraphAPI: the users whose username the CSV listed
    orgData,        \* GraphAPI: the user records, in the order they were pushed
    filteredOrgData,   \* GraphAPI: the records applyFilters kept
    filterNoDepartment,  \* GraphAPI: whether users without department go
    emailHistory,   \* localStorage: the list stored as orgChartEmailHistory
    emailSaves,     \* the emails saved so far, the last saved first, each once
    app,            \* the profile appender: token, sign-in domain, the page's
                    \* inputs, statuses and loading overlay
    profileFetch,   \* the profile appender: the fetchProfileData call under way
                    \* or last ended, with what it asked the directory
    fileUpload,     \* the profile appender: the file being parsed
    hierarchyData,  \* GraphAPI: the root node buildHierarchy returned
    orgFetch,       \* the fetchOrgData call that led here: what the directory
                    \* answered, the limits read from the page, and how it ended
    tree,           \* OrgChart: the root node of the chart
    treeOp,         \* OrgChart: the operation that led here, [op, email]
    expandedDepthFrontier,  \* OrgChart: the expand frontier of the tier commands
    tierLog         \* OrgChart: the last tier command and the one before it,
                    \* with the chart each of them found

vars == <<columns, rows, selectedRows, sortState, headCells, bodyRows, last,
          exported, licensedUsernames, orgData, filteredOrgData, hierarchyData,
          orgFetch, tree, treeOp, expandedDepthFrontier, tierLog,
          filterNoDepartment, emailHistory, emailSaves, app, profileFetch,
          fileUpload>>

\* the state outside the DataTable module, which none of its operations touch
outside == <<licensedUsernames, orgData, filteredOrgData, hierarchyData,
             orgFetch, tree, treeOp, expandedDepthFrontier, tierLog,
             filterNoDepartment, emailHistory, emailSaves, app, profileFetch,
             fileUpload>>

\* the state of the profile appender
controller == <<app, profileFetch, fileUpload>>

\* the state of the organization chart's modules
chart == <<licensedUsernames, orgData, filteredOrgData, hierarchyData,
           orgFetch, tree, treeOp, expandedDepthFrontier, tierLog,
           filterNoDepartment, emailHistory, emailSaves>>

\* the state of the DataTable module and of the page around it
table == <<columns, rows, selectedRows, sortState, headCells, bodyRows, last,
           exported>>

NoColumn == 0 - 1     \* sortState.columnIndex === null

UnsortedState == [columnIndex |-> NoColumn, direction |-> "asc"]

RowIds(rs) == {rs[k].id : k \in 1..Len(rs)}

\* An array the caller holds is [shared, items]: shared says that it is the
\* very array object the module's variable of that name refers to. A row in
\* items is the module's row object when it has that row's id.
NothingExported ==
    [columns |-> [shared |-> FALSE, items |-> <<>>],
     rows |-> [shared |-> FALSE, items |-> <<>>]]

\* columns = ... and rows = ... make the variable refer to a new array: an
\* array held outside is no longer the variable's
ColumnsReassigned(x) == [x EXCEPT !.columns.shared = FALSE]
RowsReassigned(x) == [x EXCEPT !.rows.shared = FALSE]

HasData(cols, rs) == Len(cols) > 0 /\ Len(rs) > 0

hasData == HasData(columns, rows)

\* What reading a stored cell gives: an empty slot reads as undefined
CellValue(c) == IF c = Hole THEN Undefined ELSE Str(c)

formatCell(value) ==
    IF value.t \in {"undefined", "null"} THEN <<>> ELSE ToStr(value)

\* row[idx] of a row's cells, as a JavaScript value
CellAt(cells, idx) ==
    IF InRange(cells, idx) THEN CellValue(At(cells, idx)) ELSE Undefined

\* ----------------------------------------------------------- the collator

\* Intl.Collator(undefined, {numeric: true, sensitivity: 'base'}) on the
\* characters the model's cells are made of: primary weights only (case is
\* ignored), punctuation before digits before letters, and a run of digits
\* compared by its numeric value.
CollationOrder == <<" ", "-", ".", "@",
                    "0", "1", "2", "3", "4", "5", "6", "7", "8", "9",
                    "a", "b", "c", "d", "e", "f", "g", "h", "i", "j", "k", "l", "m",
                    "n", "o", "p", "q", "r", "s", "t", "u", "v", "w", "x", "y", "z">>

PrimaryWeight(c) ==
    LET lc == LowerChar(c)
    IN IF \E k \in 1..Len(CollationOrder) : CollationOrder[k] = lc
       THEN CHOOSE k \in 1..Len(CollationOrder) : CollationOrder[k] = lc
       ELSE 0

IsDigit(c) == \E k \in 1..10 : Digits[k] = c

DigitValue(c) == (CHOOSE k \in 1..10 : Digits[k] = c) - 1

RECURSIVE DigitRunLength(_)
DigitRunLength(s) ==
    IF s = <<>> \/ ~IsDigit(Head(s)) THEN 0 ELSE 1 + DigitRunLength(Tail(s))

RECURSIVE DigitRunValue(_, _)
DigitRunValue(s, acc) ==
    IF s = <<>> \/ ~IsDigit(Head(s)) THEN acc
    ELSE DigitRunValue(Tail(s), 10 * acc + DigitValue(Head(s)))

Sign(n) == IF n < 0 THEN 0 - 1 ELSE IF n > 0 THEN 1 ELSE 0

RECURSIVE collatorCompare(_, _)
collatorCompare(x, y) ==
    IF x = <<>> /\ y = <<>> THEN 0
    ELSE IF x = <<>> THEN 0 - 1
    ELSE IF y = <<>> THEN 1
    ELSE IF IsDigit(Head(x)) /\ IsDigit(Head(y))
         THEN LET nx == DigitRunValue(x, 0)
                  ny == DigitRunValue(y, 0)
              IN IF nx # ny THEN Sign(nx - ny)
                 ELSE collatorCompare(SubSeq(x, DigitRunLength(x) + 1, Len(x)),
                                      SubSeq(y, DigitRunLength(y) + 1, Len(y)))
         ELSE IF PrimaryWeight(Head(x)) # PrimaryWeight(Head(y))
              THEN Sign(PrimaryWeight(Head(x)) - PrimaryWeight(Head(y)))
              ELSE collatorCompare(Tail(x), Tail(y))

\* ------------------------------------------------------------------- sort

DirectionFactor(direction) == IF direction = "asc" THEN 1 ELSE 0 - 1

\* mutant: ties broken by the later original position first
SortComparatorTiesReversed(a, b, columnIndex, directionFactor) ==
    LET comparison == collatorCompare(formatCell(CellAt(a.row.cells, columnIndex)),
                                      formatCell(CellAt(b.row.cells, columnIndex)))
    IN IF comparison # 0 THEN directionFactor * comparison
       ELSE directionFactor * (b.idx - a.idx)

\* mutant: ties broken by original position whatever the direction
SortComparatorTiesByIndex(a, b, columnIndex, directionFactor) ==
    LET comparison == collatorCompare(formatCell(CellAt(a.row.cells, columnIndex)),
                                      formatCell(CellAt(b.row.cells, columnIndex)))
    IN IF comparison # 0 THEN directionFactor * comparison
       ELSE a.idx - b.idx

\* the comparator handed to Array.prototype.sort in handleSort; a and b are
\* the {row, idx} items
SortComparator(a, b, columnIndex, directionFactor) ==
    LET valueA == formatCell(CellAt(a.row.cells, columnIndex))
        valueB == formatCell(CellAt(b.row.cells, columnIndex))
        comparison == collatorCompare(valueA, valueB)
    IN IF comparison # 0 THEN directionFactor * comparison
       ELSE directionFactor * (a.idx - b.idx)

\* Array.prototype.sort is a stable sort: an item goes after every item of
\* the part already sorted that does not compare greater than it
RECURSIVE InsertSorted(_, _, _, _)
InsertSorted(item, sorted, columnIndex, directionFactor) ==
    IF sorted = <<>> THEN <<item>>
    ELSE IF SortComparator(item, Head(sorted), columnIndex, directionFactor) < 0
         THEN <<item>> \o sorted
         ELSE <<Head(sorted)>> \o
              InsertSorted(item, Tail(sorted), columnIndex, directionFactor)

RECURSIVE ArraySort(_, _, _)
ArraySort(items, columnIndex, directionFactor) ==
    IF items = <<>> THEN <<>>
    ELSE InsertSorted(items[Len(items)],
                      ArraySort(SubSeq(items, 1, Len(items) - 1),
                                columnIndex, directionFactor),
                      columnIndex, directionFactor)

\* mutant: the direction flips whichever column was sorted before
NextDirectionAnyColumn(state, columnIndex) ==
    IF state.columnIndex # 0 - 1 /\ state.direction = "asc" THEN "desc" ELSE "asc"

NextDirection(state, columnIndex) ==
    IF state.columnIndex = columnIndex /\ state.direction = "asc"
    THEN "desc" ELSE "asc"

\* the rows handleSort leaves: map to {row, idx}, sort, map back
SortedItems(rs, columnIndex, direction) ==
    ArraySort([k \in 1..Len(rs) |-> [row |-> rs[k], idx |-> k - 1]],
              columnIndex, DirectionFactor(direction))

RowsOfItems(sorted) == [k \in 1..Len(sorted) |-> sorted[k].row]

\* mutant: the sorted rows are copies, new objects with the same cells
SortedRowCopies(rs, columnIndex, direction) ==
    [k \in 1..Len(rs) |->
        [id |-> RowsOfItems(SortedItems(rs, columnIndex, direction))[k].id + Len(rs),
         cells |-> RowsOfItems(SortedItems(rs, columnIndex, direction))[k].cells]]

SortedRows(rs, columnIndex, direction) ==
    RowsOfItems(SortedItems(rs, columnIndex, direction))

\* ----------------------------------------------------------------- render

\* What render() leaves in the page: nothing when the table has no data,
\* else one sortable header cell per column and one body row per row
RenderHead(cols, rs) == IF HasData(cols, rs) THEN Len(cols) ELSE 0

RenderBody(cols, rs) ==
    IF HasData(cols, rs) THEN [k \in 1..Len(rs) |-> rs[k].id] ELSE <<>>

\* --------------------------------------------------------------- loadData

\* a JavaScript array, or any value that is not an array
Arr(items) == [isArray |-> TRUE, items |-> items]
NotArray == [isArray |-> FALSE, items |-> <<>>]

ColumnPrefix == <<"C", "o", "l", "u", "m", "n", " ">>

ColumnLabel(col, idx) ==
    IF col.t \in {"undefined", "null"} \/ (col.t = "string" /\ col.s = <<>>)
    THEN ColumnPrefix \o NumberToString(idx + 1)
    ELSE ToStr(col)

LoadedColumns(newColumns) ==
    IF newColumns.isArray
    THEN [k \in 1..Len(newColumns.items) |-> ColumnLabel(newColumns.items[k], k - 1)]
    ELSE <<>>

\* mutant: an array row is formatted as it is, neither padded nor cut
normalizeRowAsGiven(row, cols) ==
    IF ~row.isArray
    THEN [k \in 1..Len(cols) |-> <<>>]
    ELSE [k \in 1..Len(row.items) |-> formatCell(row.items[k])]

normalizeRow(row, cols) ==
    IF ~row.isArray
    THEN [k \in 1..Len(cols) |-> <<>>]
    ELSE [k \in 1..Len(cols) |->
            formatCell(IF k <= Len(row.items) THEN row.items[k] ELSE Undefined)]

\* the identities of n newly created row objects: different from every row
\* object the module still holds
RECURSIVE FreshIds(_, _, _)
FreshIds(n, used, from) ==
    IF n = 0 THEN <<>>
    ELSE IF from \in used THEN FreshIds(n, used, from + 1)
    ELSE <<from>> \o FreshIds(n - 1, used, from + 1)

LoadedRows(newRows, cols, used) ==
    IF newRows.isArray
    THEN LET ids == FreshIds(Len(newRows.items), used, 1)
         IN [k \in 1..Len(newRows.items) |->
               [id |-> ids[k], cells |-> normalizeRow(newRows.items[k], cols)]]
    ELSE <<>>

\* mutant: the selection Set is not cleared
LoadDataKeepingSelection(newColumns, newRows) ==
    \E cols \in {LoadedColumns(newColumns)} :
    \E rs \in {LoadedRows(newRows, cols, RowIds(rows) \cup selectedRows
                                           \cup RowIds(exported.rows.items))} :
       /\ columns' = cols
       /\ rows' = rs
       /\ sortState' = UnsortedState
       /\ headCells' = RenderHead(cols, rs)
       /\ bodyRows' = RenderBody(cols, rs)
       /\ last' = [op |-> "loadData", args |-> <<newColumns, newRows>>,
                   ret |-> Undefined, notify |-> 1]
       /\ exported' = RowsReassigned(ColumnsReassigned(exported))
       /\ UNCHANGED outside
       /\ UNCHANGED selectedRows

\* what loadData does to the table
LoadDataOnTable(newColumns, newRows) ==
    \E cols \in {LoadedColumns(newColumns)} :
    \E rs \in {LoadedRows(newRows, cols, RowIds(rows) \cup selectedRows
                                           \cup RowIds(exported.rows.items))} :
       /\ columns' = cols
       /\ rows' = rs
       /\ selectedRows' = {}
       /\ sortState' = UnsortedState
       /\ headCells' = RenderHead(cols, rs)
       /\ bodyRows' = RenderBody(cols, rs)
       /\ last' = [op |-> "loadData", args |-> <<newColumns, newRows>>,
                   ret |-> Undefined, notify |-> 1]
       /\ exported' = RowsReassigned(ColumnsReassigned(exported))

LoadData(newColumns, newRows) ==
    /\ LoadDataOnTable(newColumns, newRows)
    /\ UNCHANGED outside

Clear ==
    /\ columns' = <<>>
    /\ rows' = <<>>
    /\ selectedRows' = {}
    /\ sortState' = UnsortedState
    /\ headCells' = RenderHead(<<>>, <<>>)
    /\ bodyRows' = RenderBody(<<>>, <<>>)
    /\ last' = [op |-> "clear", args |-> <<>>, ret |-> Undefined, notify |-> 1]
    /\ exported' = RowsReassigned(ColumnsReassigned(exported))
    /\ UNCHANGED outside

\* ----------------------------------------------------------- ensureColumn

\* mutant: the stored label is compared as it is, not lowercased
FindColumnExact(cols, normalized) ==
    IF \E k \in 1..Len(cols) : cols[k] = normalized
    THEN (CHOOSE k \in 1..Len(cols) :
            /\ cols[k] = normalized
            /\ \A j \in 1..(k - 1) : cols[j] # normalized) - 1
    ELSE 0 - 1

FindColumn(cols, normalized) ==
    IF \E k \in 1..Len(cols) : ToLowerCase(cols[k]) = normalized
    THEN (CHOOSE k \in 1..Len(cols) :
            /\ ToLowerCase(cols[k]) = normalized
            /\ \A j \in 1..(k - 1) : ToLowerCase(cols[j]) # normalized) - 1
    ELSE 0 - 1

\* mutant: the new cell is pushed at the end of every row
ensureColumnPushingCells(cols, rs, columnName, preferredIndex) ==
    LET existingIndex == FindColumn(cols, ToLowerCase(columnName))
        targetIndex ==
            Max(0, Min(IF preferredIndex.t = "number" THEN preferredIndex.n
                       ELSE Len(cols),
                       Len(cols)))
    IN IF existingIndex # 0 - 1
       THEN [columns |-> cols, rows |-> rs, ret |-> existingIndex]
       ELSE [columns |-> Splice(cols, targetIndex, columnName),
             rows |-> [k \in 1..Len(rs) |->
                         [rs[k] EXCEPT !.cells = Append(@, <<>>)]],
             ret |-> targetIndex]

\* ensureColumn(columnName, preferredIndex) on the table (cols, rs): the
\* table it leaves and the index it returns
ensureColumn(cols, rs, columnName, preferredIndex) ==
    LET normalized == ToLowerCase(columnName)
        existingIndex == FindColumn(cols, normalized)
        targetIndex ==
            Max(0, Min(IF preferredIndex.t = "number" THEN preferredIndex.n
                       ELSE Len(cols),
                       Len(cols)))
    IN IF existingIndex # 0 - 1
       THEN [columns |-> cols, rows |-> rs, ret |-> existingIndex]
       ELSE [columns |-> Splice(cols, targetIndex, columnName),
             rows |-> [k \in 1..Len(rs) |->
                         [rs[k] EXCEPT !.cells = Splice(@, targetIndex, <<>>)]],
             ret |-> targetIndex]

EnsureColumn(columnName, preferredIndex) ==
    \E r \in {ensureColumn(columns, rows, columnName, preferredIndex)} :
       /\ Len(r.columns) <= MaxCols
       /\ columns' = r.columns
       /\ rows' = r.rows
       /\ last' = [op |-> "ensureColumn", args |-> <<>>,
                   ret |-> r.ret, notify |-> 0]
       /\ UNCHANGED <<selectedRows, sortState, headCells, bodyRows, exported, outside>>

\* -------------------------------------------------------- setColumnValues

\* values[idx] of a JavaScript array
ItemAt(items, idx) == IF InRange(items, idx) THEN At(items, idx) ELSE Undefined

setColumnValues(rs, columnIndex, values) ==
    [k \in 1..Len(rs) |->
        [rs[k] EXCEPT !.cells =
            SetIndex(@, columnIndex, formatCell(ItemAt(values, k - 1)))]]

SetColumnValues(columnIndex, values) ==
    /\ columnIndex <= Len(columns)
    /\ rows' = setColumnValues(rows, columnIndex, values)
    /\ headCells' = RenderHead(columns, rows')
    /\ bodyRows' = RenderBody(columns, rows')
    /\ last' = [op |-> "setColumnValues", args |-> <<>>,
                ret |-> Undefined, notify |-> 1]
    /\ UNCHANGED <<columns, selectedRows, sortState, exported, outside>>

\* -------------------------------------------------------- applyFieldValues

\* valueLookup[label] || []: the lookup is a function from labels to arrays,
\* NotArray standing for a label the lookup has no entry for
LookupValues(valueLookup, label) ==
    IF label \in DOMAIN valueLookup /\ valueLookup[label].isArray
    THEN valueLookup[label].items
    ELSE <<>>

\* mutant: row r is given the value of row r + 1
WriteLabelShifted(e, insertionIndex, values, mode) ==
    [columns |-> e.columns,
     rows |-> [k \in 1..Len(e.rows) |->
                 [e.rows[k] EXCEPT !.cells =
                     SetIndex(@, e.ret, formatCell(ItemAt(values, k)))]],
     insertionIndex |->
         IF mode = "index" /\ e.ret >= insertionIndex
         THEN e.ret + 1 ELSE insertionIndex]

\* mutant: the insertion index stays where it was
WriteLabelSameIndex(e, insertionIndex, values, mode) ==
    [columns |-> e.columns,
     rows |-> [k \in 1..Len(e.rows) |->
                 [e.rows[k] EXCEPT !.cells =
                     SetIndex(@, e.ret, formatCell(ItemAt(values, k - 1)))]],
     insertionIndex |-> insertionIndex]

\* the rest of the body of fieldLabels.forEach once ensureColumn has
\* returned e: the values are written and the insertion index moves on
WriteLabel(e, insertionIndex, values, mode) ==
    [columns |-> e.columns,
     rows |-> [k \in 1..Len(e.rows) |->
                 [e.rows[k] EXCEPT !.cells =
                     SetIndex(@, e.ret, formatCell(ItemAt(values, k - 1)))]],
     insertionIndex |->
         IF mode = "index" /\ e.ret >= insertionIndex
         THEN e.ret + 1 ELSE insertionIndex]

\* the body of fieldLabels.forEach for one label: the table, and the
\* insertion index the next label starts from
ApplyLabel(t, label, valueLookup, mode) ==
    WriteLabel(ensureColumn(t.columns, t.rows, label, Num(t.insertionIndex)),
               t.insertionIndex, LookupValues(valueLookup, label), mode)

RECURSIVE ApplyLabels(_, _, _, _)
ApplyLabels(t, labels, valueLookup, mode) ==
    IF labels = <<>> THEN t
    ELSE ApplyLabels(ApplyLabel(t, Head(labels), valueLookup, mode),
                     Tail(labels), valueLookup, mode)

\* options.mode and options.index ?? columns.length
OptionsMode(options) == IF options.mode = "index" THEN "index" ELSE "end"

InsertionIndex(cols, options) ==
    IF OptionsMode(options) = "index"
    THEN Max(0, Min(IF options.index.t \in {"undefined", "null"} THEN Len(cols)
                    ELSE options.index.n,
                    Len(cols)))
    ELSE Len(cols)

applyFieldValues(cols, rs, fieldLabels, valueLookup, options) ==
    ApplyLabels([columns |-> cols, rows |-> rs,
                 insertionIndex |-> InsertionIndex(cols, options)],
                fieldLabels.items, valueLookup, OptionsMode(options))

\* what applyFieldValues does to the table, on inputs that leave the table
\* within MaxCols columns
ApplyFieldValuesOnTable(fieldLabels, valueLookup, options) ==
    IF ~fieldLabels.isArray \/ Len(fieldLabels.items) = 0
    THEN /\ last' = [op |-> "applyFieldValues",
                     args |-> <<fieldLabels, valueLookup, options>>,
                     ret |-> Undefined, notify |-> 0]
         /\ UNCHANGED <<columns, rows, selectedRows, sortState, headCells,
                        bodyRows, exported>>
    ELSE \E r \in {applyFieldValues(columns, rows, fieldLabels, valueLookup, options)} :
            /\ Len(r.columns) <= MaxCols
            /\ columns' = r.columns
            /\ rows' = r.rows
            /\ headCells' = RenderHead(r.columns, r.rows)
            /\ bodyRows' = RenderBody(r.columns, r.rows)
            /\ last' = [op |-> "applyFieldValues",
                        args |-> <<fieldLabels, valueLookup, options>>,
                        ret |-> Undefined, notify |-> 1]
            /\ UNCHANGED <<selectedRows, sortState, exported>>

ApplyFieldValues(fieldLabels, valueLookup, options) ==
    /\ ApplyFieldValuesOnTable(fieldLabels, valueLookup, options)
    /\ UNCHANGED outside

\* -------------------------------------------------------- findEmailColumn

IsAlphanumeric(c) ==
    IsDigit(c) \/ (\E k \in 1..26 : LowerChars[k] = c \/ UpperChars[k] = c)

\* name.replace(/[^a-z0-9]/gi, '').toLowerCase()
normalizeColumnName(name) == ToLowerCase(SelectSeq(name, IsAlphanumeric))

\* String.prototype.includes
Includes(s, sub) ==
    \E i \in 0..(Len(s) - Len(sub)) : SubSeq(s, i + 1, i + Len(sub)) = sub

PreferredMatches ==
    <<<<"e", "m", "a", "i", "l">>,
      <<"m", "a", "i", "l">>,
      <<"u", "s", "e", "r", "p", "r", "i", "n", "c", "i", "p", "a", "l", "n", "a", "m", "e">>,
      <<"s", "i", "g", "n", "i", "n", "n", "a", "m", "e">>,
      <<"u", "p", "n">>>>

\* normalizedColumns.findIndex(col => col.includes(match))
FindIncluding(normalizedColumns, match) ==
    IF \E k \in 1..Len(normalizedColumns) : Includes(normalizedColumns[k], match)
    THEN (CHOOSE k \in 1..Len(normalizedColumns) :
            /\ Includes(normalizedColumns[k], match)
            /\ \A j \in 1..(k - 1) : ~Includes(normalizedColumns[j], match)) - 1
    ELSE 0 - 1

\* normalizedColumns.findIndex(col => /mail|email/.test(col))
FindLoose(normalizedColumns) ==
    LET Loose(col) == Includes(col, PreferredMatches[2])
                      \/ Includes(col, PreferredMatches[1])
    IN IF \E k \in 1..Len(normalizedColumns) : Loose(normalizedColumns[k])
       THEN (CHOOSE k \in 1..Len(normalizedColumns) :
               /\ Loose(normalizedColumns[k])
               /\ \A j \in 1..(k - 1) : ~Loose(normalizedColumns[j])) - 1
       ELSE 0 - 1

\* mutant: the first column that includes any of the candidates
FirstPreferredByColumn(normalizedColumns, matches) ==
    IF \E k \in 1..Len(normalizedColumns), m \in 1..Len(matches) :
          Includes(normalizedColumns[k], matches[m])
    THEN (CHOOSE k \in 1..Len(normalizedColumns) :
            /\ \E m \in 1..Len(matches) : Includes(normalizedColumns[k], matches[m])
            /\ \A j \in 1..(k - 1) : \A m \in 1..Len(matches) :
                  ~Includes(normalizedColumns[j], matches[m])) - 1
    ELSE 0 - 1

\* the for loop over preferredMatches: the index found for the first match
\* that any column includes, -1 when the loop ends without a return
RECURSIVE FirstPreferred(_, _)
FirstPreferred(normalizedColumns, matches) ==
    IF matches = <<>> THEN 0 - 1
    ELSE LET index == FindIncluding(normalizedColumns, Head(matches))
         IN IF index # 0 - 1 THEN index
            ELSE FirstPreferred(normalizedColumns, Tail(matches))

findEmailColumn(cols) ==
    IF Len(cols) = 0 THEN 0 - 1
    ELSE LET normalizedColumns == [k \in 1..Len(cols) |-> normalizeColumnName(cols[k])]
             index == FirstPreferred(normalizedColumns, PreferredMatches)
         IN IF index # 0 - 1 THEN index ELSE FindLoose(normalizedColumns)

FindEmailColumn ==
    /\ last' = [op |-> "findEmailColumn", args |-> <<>>,
                ret |-> findEmailColumn(columns), notify |-> 0]
    /\ UNCHANGED <<columns, rows, selectedRows, sortState, headCells, bodyRows,
                   exported, outside>>

\* ------------------------------------------------------- getDataForExport

\* columns.slice(): a new array of the same labels
getColumns(cols) == [shared |-> FALSE, items |-> cols]

\* mutant: rows.slice(), a new array of the module's own row objects
getRowsShallow(rs, used) == [shared |-> FALSE, items |-> rs]

\* rows.map(row => row.slice()): a new array of new row objects, each with
\* the cells of the row it copies
getRows(rs, used) ==
    [shared |-> FALSE,
     items |-> [k \in 1..Len(rs) |->
                  [id |-> FreshIds(Len(rs), used, 1)[k], cells |-> rs[k].cells]]]

getDataForExport(cols, rs, used) ==
    [columns |-> getColumns(cols), rows |-> getRows(rs, used)]

GetDataForExport ==
    /\ exported' = getDataForExport(columns, rows, RowIds(rows) \cup selectedRows)
    /\ UNCHANGED outside
    /\ last' = [op |-> "getDataForExport", args |-> <<>>,
                ret |-> Undefined, notify |-> 0]
    /\ UNCHANGED <<columns, rows, selectedRows, sortState, headCells, bodyRows>>

\* What the holder of the returned object can do to its arrays. A write to
\* an array object is a write to every reference to that object: to the
\* module's columns or rows when the array is shared, to the module's row
\* when the row object is one of its rows.

\* exported.columns[0] = 'x', exported.columns.push('x') or .length = 0
WriteExportedColumns(items) ==
    /\ Len(items) <= MaxCols + 1
    /\ exported' = [exported EXCEPT !.columns.items = items]
    /\ UNCHANGED outside
    /\ columns' = IF exported.columns.shared THEN items ELSE columns
    /\ UNCHANGED rows

\* exported.rows.reverse() or exported.rows.pop()
WriteExportedRows(items) ==
    /\ exported' = [exported EXCEPT !.rows.items = items]
    /\ UNCHANGED outside
    /\ rows' = IF exported.rows.shared THEN items ELSE rows
    /\ UNCHANGED columns

\* exported.rows[k][0] = 'x' or exported.rows[k].length = 0
WriteExportedRow(k, cells) ==
    /\ InRange(exported.rows.items, k)
    /\ \E id \in {At(exported.rows.items, k).id} :
          /\ exported' = [exported EXCEPT !.rows.items =
                 [j \in 1..Len(@) |-> IF @[j].id = id
                                      THEN [@[j] EXCEPT !.cells = cells] ELSE @[j]]]
          /\ UNCHANGED outside
          /\ rows' = [j \in 1..Len(rows) |->
                        IF rows[j].id = id
                        THEN [rows[j] EXCEPT !.cells = cells] ELSE rows[j]]
    /\ UNCHANGED columns

\* the first write to the object getDataForExport has just returned
MutateExported ==
    /\ last.op = "getDataForExport"
    /\ \/ \E items \in {SetIndex(exported.columns.items, 0, <<"x">>),
                         Append(exported.columns.items, <<"x">>), <<>>} :
             WriteExportedColumns(items)
       \/ \E items \in {Reverse(exported.rows.items),
                         SubSeq(exported.rows.items, 1, Len(exported.rows.items) - 1)} :
             WriteExportedRows(items)
       \/ \E k \in 0..(Len(exported.rows.items) - 1) :
             \E cells \in {SetIndex(exported.rows.items[k + 1].cells, 0, <<"x">>), <<>>} :
                WriteExportedRow(k, cells)
    /\ last' = [op |-> "mutateExported", args |-> <<>>,
                ret |-> Undefined, notify |-> 0]
    /\ UNCHANGED <<selectedRows, sortState, headCells, bodyRows>>

\* ------------------------------------------------------------- handleSort

\* a click on the header cell of column columnIndex
HandleSort(columnIndex) ==
    /\ columnIndex \in 0..(headCells - 1)
    /\ IF columnIndex < 0 \/ columnIndex >= Len(columns)
       THEN UNCHANGED <<rows, sortState, headCells, bodyRows, exported, outside>>
       ELSE LET nextDirection == NextDirection(sortState, columnIndex)
            IN /\ sortState' = [columnIndex |-> columnIndex,
                                direction |-> nextDirection]
               /\ rows' = SortedRows(rows, columnIndex, nextDirection)
               /\ headCells' = RenderHead(columns, rows')
               /\ bodyRows' = RenderBody(columns, rows')
               /\ exported' = RowsReassigned(exported)
               /\ UNCHANGED outside
    /\ last' = [op |-> "sort", args |-> <<columnIndex>>,
                ret |-> Undefined, notify |-> 0]
    /\ UNCHANGED <<columns, selectedRows>>

\* -------------------------------------------------------------- selection

\* mutant: the Set holds the rows' contents, so that a row stands for every
\* row with the same cells
ToggleRowSelectionByValue(row, shouldSelect) ==
    /\ \E k \in 1..Len(bodyRows) : bodyRows[k] = row
    /\ \E same \in {{rows[j].id : j \in {i \in 1..Len(rows) :
                        \E k \in 1..Len(rows) :
                           rows[k].id = row /\ rows[k].cells = rows[i].cells}}} :
          selectedRows' = IF shouldSelect THEN selectedRows \cup same
                          ELSE selectedRows \ same
    /\ last' = [op |-> "toggleRowSelection", args |-> <<row, shouldSelect>>,
                ret |-> Undefined, notify |-> 0]
    /\ UNCHANGED <<columns, rows, sortState, headCells, bodyRows, exported, outside>>

\* a change of a body row's checkbox, or a click on the row
ToggleRowSelection(row, shouldSelect) ==
    /\ \E k \in 1..Len(bodyRows) : bodyRows[k] = row
    /\ selectedRows' = IF shouldSelect THEN selectedRows \cup {row}
                       ELSE selectedRows \ {row}
    /\ last' = [op |-> "toggleRowSelection", args |-> <<row, shouldSelect>>,
                ret |-> Undefined, notify |-> 0]
    /\ UNCHANGED <<columns, rows, sortState, headCells, bodyRows, exported, outside>>

\* a change of the header's select-all checkbox
HandleSelectAll(checked) ==
    /\ headCells > 0
    /\ selectedRows' = IF checked THEN selectedRows \cup RowIds(rows) ELSE {}
    /\ last' = [op |-> "selectAll", args |-> <<checked>>,
                ret |-> Undefined, notify |-> 0]
    /\ UNCHANGED <<columns, rows, sortState, headCells, bodyRows, exported, outside>>

\* ----------------------------------------------------- removeSelectedRows

\* mutant: a row goes when its cells are those of a selected row
RemainingRowsByValue(rs, selected) ==
    SelectSeq(rs, LAMBDA row :
        ~\E k \in 1..Len(rs) : rs[k].id \in selected /\ rs[k].cells = row.cells)

RemainingRows(rs, selected) == SelectSeq(rs, LAMBDA row : row.id \notin selected)

\* deleteSelectedRows(), also the click handler of the delete button
RemoveSelectedRows ==
    IF selectedRows = {}
    THEN /\ last' = [op |-> "deleteSelectedRows", args |-> <<>>,
                     ret |-> Undefined, notify |-> 0]
         /\ UNCHANGED <<columns, rows, selectedRows, sortState, headCells,
                        bodyRows, exported, outside>>
    ELSE /\ rows' = RemainingRows(rows, selectedRows)
         /\ selectedRows' = {}
         /\ headCells' = RenderHead(columns, rows')
         /\ bodyRows' = RenderBody(columns, rows')
         /\ last' = [op |-> "deleteSelectedRows", args |-> <<>>,
                     ret |-> Undefined, notify |-> 1]
         /\ exported' = RowsReassigned(exported)
         /\ UNCHANGED outside
         /\ UNCHANGED <<columns, sortState>>

\* ---------------------------------------------- GraphAPI: fetchOrgData

\* A directory user is its Graph id, 1, 2, ...; env is what surrounds a
\* fetch: env.directReports[user] is what the directory answers to
\* /users/{id}/directReports, env.department[user] the user's department
\* ("" when it has none) and env.licensed the users whose username is in
\* licensedUsernames. Every user has a mail of its own and a title that is
\* not an intern's.

\* userData.mail, lowercased
Email(user) == <<"u">> \o NumberToString(user)

\* null, where a node is expected
NoNode == [id |-> 0, email |-> <<>>, department |-> "", hasLicense |-> FALSE,
           children |-> <<>>]

\* the user object processUserData makes of the directory's answer
UserRecord(user, env) ==
    [id |-> user, email |-> Email(user),
     department |-> IF env.department[user] = "" THEN "Unknown"
                    ELSE env.department[user],
     hasLicense |-> user \in env.licensed]

\* processUserData(userData), which pushes the record to orgData
processUserData(od, user, env) == Append(od, UserRecord(user, env))

\* buildHierarchy and the loop over the direct reports call each other:
\* both take and give back b = [orgData, visitedIds], the two collections
\* they write to
RECURSIVE buildHierarchy(_, _, _, _, _, _)
RECURSIVE ProcessReports(_, _, _, _, _, _, _)

\* the node of buildHierarchy, once its children are known
BuiltNode(user, r, env) ==
    [node |-> [id |-> user, email |-> Email(user),
               department |-> UserRecord(user, env).department,
               hasLicense |-> UserRecord(user, env).hasLicense,
               children |-> r.children],
     orgData |-> r.orgData, visitedIds |-> r.visitedIds]

\* the rest of the loop body once buildHierarchy has returned c for a report
AfterChild(c, reports, children, depth, maxDepth, maxUsers, env) ==
    ProcessReports(Tail(reports),
                   IF c.node # NoNode THEN Append(children, c.node) ELSE children,
                   [orgData |-> c.orgData, visitedIds |-> c.visitedIds],
                   depth, maxDepth, maxUsers, env)

\* mutant: the loop without its check of the number of records
ProcessReportsUncapped(reports, children, b, depth, maxDepth, maxUsers, env) ==
    IF reports = <<>>
    THEN [children |-> children, orgData |-> b.orgData, visitedIds |-> b.visitedIds]
    ELSE AfterChild(buildHierarchy(Head(reports),
                                   [b EXCEPT !.orgData =
                                       processUserData(@, Head(reports), env)],
                                   depth + 1, maxDepth, maxUsers, env),
                    reports, children, depth, maxDepth, maxUsers, env)

\* for (const reportData of reports) { ... }: the children pushed to the node
ProcessReports(reports, children, b, depth, maxDepth, maxUsers, env) ==
    IF reports = <<>> \/ Len(b.orgData) >= maxUsers
    THEN [children |-> children, orgData |-> b.orgData, visitedIds |-> b.visitedIds]
    ELSE AfterChild(buildHierarchy(Head(reports),
                                   [b EXCEPT !.orgData =
                                       processUserData(@, Head(reports), env)],
                                   depth + 1, maxDepth, maxUsers, env),
                    reports, children, depth, maxDepth, maxUsers, env)

\* mutant: a user already visited is expanded again
buildHierarchyRevisiting(user, b, depth, maxDepth, maxUsers, env) ==
    IF Len(b.orgData) >= maxUsers \/ depth >= maxDepth
    THEN [node |-> NoNode, orgData |-> b.orgData, visitedIds |-> b.visitedIds]
    ELSE IF depth < maxDepth - 1
    THEN BuiltNode(user,
                   ProcessReports(env.directReports[user], <<>>,
                                  [b EXCEPT !.visitedIds = @ \cup {user}],
                                  depth, maxDepth, maxUsers, env),
                   env)
    ELSE BuiltNode(user, [children |-> <<>>, orgData |-> b.orgData,
                          visitedIds |-> b.visitedIds \cup {user}], env)

buildHierarchy(user, b, depth, maxDepth, maxUsers, env) ==
    IF Len(b.orgData) >= maxUsers \/ depth >= maxDepth
    THEN [node |-> NoNode, orgData |-> b.orgData, visitedIds |-> b.visitedIds]
    ELSE IF user \in b.visitedIds
    THEN [node |-> NoNode, orgData |-> b.orgData, visitedIds |-> b.visitedIds]
    ELSE IF depth < maxDepth - 1
    THEN BuiltNode(user,
                   ProcessReports(env.directReports[user], <<>>,
                                  [b EXCEPT !.visitedIds = @ \cup {user}],
                                  depth, maxDepth, maxUsers, env),
                   env)
    ELSE BuiltNode(user, [children |-> <<>>, orgData |-> b.orgData,
                          visitedIds |-> b.visitedIds \cup {user}], env)

\* applyFilters: with the department filter on, a record goes when its
\* department is missing or 'Unknown'; the title filters let every record
\* pass, whether checked or not
applyFilters(od, noDepartment) ==
    SelectSeq(od, LAMBDA user : ~(noDepartment /\ user.department = "Unknown"))

\* What rebuildHierarchy returns is null, a node or an array: [isArray,
\* items], null being the non-array without items and a node the non-array
\* with the node as its one item. An item of an array is a node or, where
\* the code pushes an array into an array, such an [isArray, items] itself.
RebuiltNull == [isArray |-> FALSE, items |-> <<>>]

RECURSIVE rebuildHierarchy(_, _)
RECURSIVE RebuildChildren(_, _, _, _)

\* the two loops over node.children: spread says whether an array that
\* comes back for a child is pushed item by item
RebuildChildren(children, validChildren, filtered, spread) ==
    IF children = <<>> THEN validChildren
    ELSE RebuildChildren(
            Tail(children),
            (LET rebuiltChild == rebuildHierarchy(Head(children), filtered)
             IN IF rebuiltChild = RebuiltNull THEN validChildren
                ELSE IF rebuiltChild.isArray
                THEN IF spread THEN validChildren \o rebuiltChild.items
                     ELSE Append(validChildren, rebuiltChild)
                ELSE validChildren \o rebuiltChild.items),
            filtered, spread)

rebuildHierarchy(node, filtered) ==
    IF node = NoNode THEN RebuiltNull
    ELSE IF ~\E k \in 1..Len(filtered) : filtered[k].email = node.email
    THEN IF Len(node.children) > 0
         THEN [isArray |-> RebuildChildren(node.children, <<>>, filtered, FALSE) # <<>>,
               items |-> RebuildChildren(node.children, <<>>, filtered, FALSE)]
         ELSE RebuiltNull
    ELSE [isArray |-> FALSE,
          items |-> <<[id |-> node.id, email |-> node.email,
                       department |-> node.department,
                       hasLicense |-> node.hasLicense,
                       children |-> RebuildChildren(node.children, <<>>,
                                                    filtered, TRUE)]>>]

\* the virtual root that takes the place of a filtered-out root
OrganizationRoot(children) ==
    [id |-> 0, email |-> <<"r", "o", "o", "t", "@", "o", "r", "g">>,
     department |-> "Organization", hasLicense |-> FALSE, children |-> children]

FinalHierarchy(filteredHierarchy) ==
    IF filteredHierarchy.isArray THEN OrganizationRoot(filteredHierarchy.items)
    ELSE filteredHierarchy.items[1]

\* ------------------------------------------------------ OrgChart (TreeView)

\* A node of the chart is [id, email, hasLicense, children, collapsedChildren].

\* no chart yet
NoTree == [id |-> 0, email |-> <<>>, hasLicense |-> FALSE,
           children |-> <<>>, collapsedChildren |-> <<>>]

\* no tier command since the chart was made or a node was clicked
NoTierLog == [op |-> "none", before |-> [tree |-> NoTree, frontier |-> 0],
              prevOp |-> "none", prevBefore |-> [tree |-> NoTree, frontier |-> 0]]

RECURSIVE buildFromHierarchy(_, _)
\* wraps the hierarchy: every subtree deeper than depth 1 starts collapsed;
\* an item that is no node (an array among the children) has no field the
\* chart reads and becomes a node without identity or children
buildFromHierarchy(node, depth) ==
    IF "isArray" \in DOMAIN node THEN NoTree
    ELSE LET wrapped == [k \in 1..Len(node.children) |->
                            buildFromHierarchy(node.children[k], depth + 1)]
         IN [id |-> node.id, email |-> node.email, hasLicense |-> node.hasLicense,
             children |-> IF depth < 1 THEN wrapped ELSE <<>>,
             collapsedChildren |-> IF depth < 1 THEN <<>> ELSE wrapped]

\* mutant: the hidden children are dropped
toggleNodeDroppingHidden(node) ==
    [node EXCEPT !.children = <<>>, !.collapsedChildren = node.children]

\* toggleNode on the node itself: children and collapsedChildren swap
toggleNode(node) ==
    [node EXCEPT !.children = node.collapsedChildren,
                 !.collapsedChildren = node.children]

RECURSIVE ToggleIn(_, _)
\* the tree after toggleNode on its node with this email
ToggleIn(node, email) ==
    IF node.email = email THEN toggleNode(node)
    ELSE [node EXCEPT
            !.children = [k \in 1..Len(@) |-> ToggleIn(@[k], email)],
            !.collapsedChildren = [k \in 1..Len(@) |-> ToggleIn(@[k], email)]]

RECURSIVE countDescendants(_)
RECURSIVE CountIn(_)
\* the nodes below node, in visible and in collapsed subtrees
countDescendants(node) == CountIn(node.children) + CountIn(node.collapsedChildren)

CountIn(nodes) ==
    IF nodes = <<>> THEN 0
    ELSE 1 + countDescendants(Head(nodes)) + CountIn(Tail(nodes))

RECURSIVE countLicensedDescendants(_)
RECURSIVE CountLicensedIn(_)
\* the licensed nodes below node, in visible and in collapsed subtrees
countLicensedDescendants(node) ==
    CountLicensedIn(node.children) + CountLicensedIn(node.collapsedChildren)

CountLicensedIn(nodes) ==
    IF nodes = <<>> THEN 0
    ELSE (IF Head(nodes).hasLicense THEN 1 ELSE 0)
         + countLicensedDescendants(Head(nodes)) + CountLicensedIn(Tail(nodes))

RECURSIVE TreeEmails(_)
RECURSIVE TreesEmails(_)
\* the emails of the nodes of the chart, hidden ones included
TreeEmails(node) ==
    <<node.email>> \o TreesEmails(node.children) \o TreesEmails(node.collapsedChildren)

TreesEmails(nodes) ==
    IF nodes = <<>> THEN <<>>
    ELSE TreeEmails(Head(nodes)) \o TreesEmails(Tail(nodes))

\* a click on the chart's node with this email
ToggleNode(email) ==
    /\ tree # NoTree
    /\ \E k \in 1..Len(TreeEmails(tree)) : TreeEmails(tree)[k] = email
    /\ tree' = ToggleIn(tree, email)
    /\ treeOp' = [op |-> "toggleNode", email |-> email]
    /\ tierLog' = NoTierLog
    /\ UNCHANGED <<table, controller, licensedUsernames, orgData, filteredOrgData,
                   hierarchyData, orgFetch, expandedDepthFrontier,
                   filterNoDepartment, emailHistory, emailSaves>>

\* the chart and its frontier, as the tier commands take and give them
View(node, frontier) == [tree |-> node, frontier |-> frontier]

\* the chart after the reveal of its collapsed nodes of depth <= frontier
RECURSIVE ExpandTo(_, _, _)
ExpandTo(node, depth, frontier) ==
    LET revealed == IF depth <= frontier /\ node.collapsedChildren # <<>>
                    THEN [node EXCEPT !.children = node.collapsedChildren,
                                      !.collapsedChildren = <<>>]
                    ELSE node
    IN [revealed EXCEPT
          !.children = [k \in 1..Len(@) |-> ExpandTo(@[k], depth + 1, frontier)]]

\* expandOneTier: the frontier advances only if a node was revealed
expandOneTier(view) ==
    LET expanded == ExpandTo(view.tree, 0, view.frontier)
    IN View(expanded, IF expanded # view.tree THEN view.frontier + 1
                      ELSE view.frontier)

\* mutant: the depth of the root, whatever is visible below it
RootDepth(node, depth) == IF node.children = <<>> THEN 0 - 1 ELSE depth

RECURSIVE DeepestVisible(_, _)
RECURSIVE DeepestVisibleIn(_, _)
\* the deepest depth at which a node has visible children, -1 without one
DeepestVisible(node, depth) ==
    IF node.children = <<>> THEN 0 - 1
    ELSE Max(depth, DeepestVisibleIn(node.children, depth + 1))

DeepestVisibleIn(nodes, depth) ==
    IF nodes = <<>> THEN 0 - 1
    ELSE Max(DeepestVisible(Head(nodes), depth),
             DeepestVisibleIn(Tail(nodes), depth))

\* the chart after the collapse of every node at this depth
RECURSIVE CollapseAt(_, _, _)
CollapseAt(node, depth, target) ==
    IF depth = target
    THEN IF node.children = <<>> THEN node
         ELSE [node EXCEPT !.children = <<>>, !.collapsedChildren = node.children]
    ELSE [node EXCEPT
            !.children = [k \in 1..Len(@) |-> CollapseAt(@[k], depth + 1, target)]]

\* collapseOneTier: nothing to do once no node has visible children
collapseOneTier(view) ==
    IF DeepestVisible(view.tree, 0) < 0 THEN view
    ELSE LET collapsed == CollapseAt(view.tree, 0, DeepestVisible(view.tree, 0))
         IN View(collapsed, DeepestVisible(collapsed, 0) + 1)

\* the tier command op, taking the chart to view
TierCommand(op, view) ==
    /\ tree # NoTree
    /\ tree' = view.tree
    /\ expandedDepthFrontier' = view.frontier
    /\ treeOp' = [op |-> op, email |-> <<>>]
    /\ tierLog' = [op |-> op, before |-> View(tree, expandedDepthFrontier),
                   prevOp |-> tierLog.op, prevBefore |-> tierLog.before]
    /\ UNCHANGED <<table, controller, licensedUsernames, orgData, filteredOrgData,
                   hierarchyData, orgFetch, filterNoDepartment,
                   emailHistory, emailSaves>>

ExpandOneTier ==
    TierCommand("expandOneTier", expandOneTier(View(tree, expandedDepthFrontier)))

CollapseOneTier ==
    TierCommand("collapseOneTier", collapseOneTier(View(tree, expandedDepthFrontier)))

\* ------------------------------------------- GraphAPI: the email history

\* mutant: the email is not removed before it goes to the front
saveEmailToHistoryKeepingOld(history, email) ==
    SubSeq(<<email>> \o history, 1, Min(10, Len(history) + 1))

\* the list saveEmailToHistory stores, history being the list it read
saveEmailToHistory(history, email) ==
    LET filtered == SelectSeq(history, LAMBDA e : e # email)
    IN SubSeq(<<email>> \o filtered, 1, Min(10, Len(filtered) + 1))

\* the emails saved so far once email is saved too
Saved(saves, email) == <<email>> \o SelectSeq(saves, LAMBDA e : e # email)

SaveEmailToHistory(email) ==
    /\ emailHistory' = saveEmailToHistory(emailHistory, email)
    /\ emailSaves' = Saved(emailSaves, email)
    /\ UNCHANGED <<table, controller, licensedUsernames, orgData, filteredOrgData,
                   hierarchyData, orgFetch, tree, treeOp,
                   expandedDepthFrontier, tierLog, filterNoDepartment>>

\* clearEmailHistory, confirmed
ClearEmailHistory ==
    /\ emailHistory' = <<>>
    /\ emailSaves' = <<>>
    /\ UNCHANGED <<table, controller, licensedUsernames, orgData, filteredOrgData,
                   hierarchyData, orgFetch, tree, treeOp,
                   expandedDepthFrontier, tierLog, filterNoDepartment>>

\* ------------------------------------------------- GraphAPI: the handlers

\* the CSV upload, for a file with an email column: the usernames of its
\* emails replace the licensed usernames
HandleCsvUpload(usernames) ==
    /\ licensedUsernames' = usernames
    /\ UNCHANGED <<table, controller, orgData, filteredOrgData, hierarchyData, orgFetch,
                   tree, treeOp, expandedDepthFrontier, tierLog,
                   filterNoDepartment, emailHistory, emailSaves>>

\* OrgChart.createVisualization(finalHierarchy, ...): a new chart, collapsed
\* below depth 1
CreateVisualization(finalHierarchy) ==
    /\ tree' = buildFromHierarchy(finalHierarchy, 0)
    /\ treeOp' = [op |-> "createVisualization", email |-> <<>>]
    /\ expandedDepthFrontier' = 1
    /\ tierLog' = NoTierLog

\* fetchOrgData with a token and a starting email: startingUser is the user
\* the directory finds for the email, 0 when it answers 404
FetchOrgData(directory, startingUser, maxUsers, maxDepth) ==
    /\ \E env \in {[directReports |-> directory.directReports,
                    department |-> directory.department,
                    licensed |-> licensedUsernames]} :
       IF startingUser = 0
       THEN /\ orgData' = <<>>
            /\ hierarchyData' = NoNode
            /\ orgFetch' = [directory |-> directory,
                            startingUser |-> startingUser, maxUsers |-> maxUsers,
                            maxDepth |-> maxDepth, status |-> "error"]
            /\ UNCHANGED <<filteredOrgData, tree, treeOp,
                           expandedDepthFrontier, tierLog, emailHistory,
                           emailSaves>>
       ELSE \E h \in {buildHierarchy(startingUser,
                                     [orgData |-> processUserData(<<>>, startingUser, env),
                                      visitedIds |-> {}],
                                     0, maxDepth, maxUsers, env)} :
            \E filteredHierarchy \in
                 {rebuildHierarchy(h.node, applyFilters(h.orgData, filterNoDepartment))} :
               /\ orgData' = h.orgData
               /\ hierarchyData' = h.node
               /\ filteredOrgData' = applyFilters(h.orgData, filterNoDepartment)
               /\ emailHistory' = saveEmailToHistory(emailHistory, Email(startingUser))
               /\ emailSaves' = Saved(emailSaves, Email(startingUser))
               /\ IF filteredHierarchy = RebuiltNull
                  THEN /\ orgFetch' = [directory |-> directory,
                                       startingUser |-> startingUser,
                                       maxUsers |-> maxUsers, maxDepth |-> maxDepth,
                                       status |-> "error"]
                       /\ UNCHANGED <<tree, treeOp, expandedDepthFrontier, tierLog>>
                  ELSE /\ orgFetch' = [directory |-> directory,
                                       startingUser |-> startingUser,
                                       maxUsers |-> maxUsers, maxDepth |-> maxDepth,
                                       status |-> "done"]
                       /\ CreateVisualization(FinalHierarchy(filteredHierarchy))
    /\ UNCHANGED <<table, controller, licensedUsernames, filterNoDepartment>>

\* rebuildVisualization: no new chart when nothing is left after filtering
RebuildVisualization(filtered) ==
    \E filteredHierarchy \in {rebuildHierarchy(hierarchyData, filtered)} :
       IF filteredHierarchy = RebuiltNull
       THEN UNCHANGED <<tree, treeOp, expandedDepthFrontier, tierLog>>
       ELSE CreateVisualization(FinalHierarchy(filteredHierarchy))

\* handleFilterChange for a change of one of the three checkboxes
HandleFilterChange(id, checked) ==
    /\ filterNoDepartment' = IF id = "filterNoDept" THEN checked
                             ELSE filterNoDepartment
    /\ IF hierarchyData # NoNode /\ Len(orgData) > 0
       THEN /\ filteredOrgData' = applyFilters(orgData, filterNoDepartment')
            /\ RebuildVisualization(filteredOrgData')
       ELSE UNCHANGED <<filteredOrgData, tree, treeOp, expandedDepthFrontier,
                        tierLog>>
    /\ UNCHANGED <<table, controller, licensedUsernames, orgData, hierarchyData, orgFetch,
                   emailHistory, emailSaves>>

\* ------------------------------------------ GraphAPI: the profile appender
\* The module of the same name that appends profile fields to the table:
\* its token and sign-in domain, the page's inputs it reads, and its two
\* asynchronous handlers, fetchProfileData and handleFileUpload.

fieldDefinitions ==
    <<[key |-> "displayName", label |-> <<"D", "i", "s", "p", "l", "a", "y", " ", "N", "a", "m", "e">>],
      [key |-> "jobTitle", label |-> <<"J", "o", "b", " ", "T", "i", "t", "l", "e">>],
      [key |-> "department", label |-> <<"D", "e", "p", "a", "r", "t", "m", "e", "n", "t">>],
      [key |-> "officeLocation", label |-> <<"O", "f", "f", "i", "c", "e", " ", "L", "o", "c", "a", "t", "i", "o", "n">>],
      [key |-> "companyName", label |-> <<"C", "o", "m", "p", "a", "n", "y", " ", "N", "a", "m", "e">>],
      [key |-> "mail", label |-> <<"M", "a", "i", "l">>],
      [key |-> "userPrincipalName", label |-> <<"U", "s", "e", "r", " ", "P", "r", "i", "n", "c", "i", "p", "a", "l", " ", "N", "a", "m", "e">>],
      [key |-> "businessPhones", label |-> <<"B", "u", "s", "i", "n", "e", "s", "s", " ", "P", "h", "o", "n", "e", "s">>],
      [key |-> "mobilePhone", label |-> <<"M", "o", "b", "i", "l", "e", " ", "P", "h", "o", "n", "e">>],
      [key |-> "preferredLanguage", label |-> <<"P", "r", "e", "f", "e", "r", "r", "e", "d", " ", "L", "a", "n", "g", "u", "a", "g", "e">>],
      [key |-> "givenName", label |-> <<"G", "i", "v", "e", "n", " ", "N", "a", "m", "e">>],
      [key |-> "surname", label |-> <<"S", "u", "r", "n", "a", "m", "e">>]>>

\* definition ? definition.label : field
FieldLabel(field) ==
    IF \E k \in 1..Len(fieldDefinitions) : fieldDefinitions[k].key = field
    THEN fieldDefinitions[CHOOSE k \in 1..Len(fieldDefinitions) :
                             fieldDefinitions[k].key = field].label
    ELSE field

RECURSIVE TrimStart(_)
TrimStart(s) ==
    IF s # <<>> /\ Head(s) = " " THEN TrimStart(Tail(s)) ELSE s

RECURSIVE TrimEnd(_)
TrimEnd(s) ==
    IF s # <<>> /\ s[Len(s)] = " " THEN TrimEnd(SubSeq(s, 1, Len(s) - 1)) ELSE s

\* String.prototype.trim, the space being the model's white space
Trim(s) == TrimEnd(TrimStart(s))

\* String.prototype.indexOf and lastIndexOf of one character
IndexOf(s, c) ==
    IF \E k \in 1..Len(s) : s[k] = c
    THEN (CHOOSE k \in 1..Len(s) : s[k] = c /\ \A j \in 1..(k - 1) : s[j] # c) - 1
    ELSE 0 - 1

LastIndexOf(s, c) ==
    IF \E k \in 1..Len(s) : s[k] = c
    THEN (CHOOSE k \in 1..Len(s) :
            s[k] = c /\ \A j \in (k + 1)..Len(s) : s[j] # c) - 1
    ELSE 0 - 1

\* A token is its text and what decodeJwtPayload finds in it: the
\* payload's preferred_username || upn || email || '', the empty string too
\* when the text has no payload that decodes (extractDomainFromToken
\* returns '' in both cases).
extractDomainFromToken(token) ==
    LET atIndex == LastIndexOf(token.domainSource, "@")
    IN IF atIndex = 0 - 1 THEN <<>>
       ELSE ToLowerCase(SubSeq(token.domainSource, atIndex + 2,
                               Len(token.domainSource)))

\* loginDomain.replace(/^@/, '').toLowerCase()
NormalizedDomain(loginDomain) ==
    ToLowerCase(IF loginDomain # <<>> /\ Head(loginDomain) = "@"
                THEN Tail(loginDomain) ELSE loginDomain)

buildLookupContext(emailValue, loginDomain) ==
    LET rawEmail == IF emailValue.t = "string" THEN emailValue.s ELSE <<>>
        normalizedEmail == Trim(rawEmail)
        normalizedDomain == NormalizedDomain(loginDomain)
        separatorIndex == IndexOf(normalizedEmail, "@")
        localPart == IF separatorIndex # 0 - 1
                     THEN SubSeq(normalizedEmail, 1, separatorIndex)
                     ELSE normalizedEmail
        swappedIdentifier == localPart \o <<"@">> \o normalizedDomain
    IN IF normalizedEmail = <<>>
       THEN [rawEmail |-> rawEmail, normalizedEmail |-> <<>>, identifiers |-> <<>>]
       ELSE [rawEmail |-> rawEmail,
             normalizedEmail |-> normalizedEmail,
             identifiers |->
                 IF /\ normalizedDomain # <<>>
                    /\ localPart # <<>>
                    /\ ToLowerCase(normalizedEmail) # ToLowerCase(swappedIdentifier)
                 THEN <<normalizedEmail, swappedIdentifier>>
                 ELSE <<normalizedEmail>>]

\* DataTable.getCellValue(rowIndex, columnIndex)
getCellValue(cols, rs, rowIndex, columnIndex) ==
    IF ~InRange(rs, rowIndex) \/ columnIndex < 0 \/ columnIndex >= Len(cols)
    THEN <<>>
    ELSE formatCell(CellAt(rs[rowIndex + 1].cells, columnIndex))

RECURSIVE DigitsValue(_, _)
\* the number the leading digits of s write, after the digits read as n
DigitsValue(s, n) ==
    IF s = <<>> \/ ~IsDigit(Head(s)) THEN n
    ELSE DigitsValue(Tail(s), 10 * n + DigitValue(Head(s)))

\* Number.parseInt(value, 10): leading white space and one sign are skipped,
\* the leading digits are read, and no digit gives NaN
ParseInt(value) ==
    LET s == TrimStart(value)
        negative == s # <<>> /\ Head(s) = "-"
        unsigned == IF s # <<>> /\ Head(s) \in {"-", "+"} THEN Tail(s) ELSE s
    IN IF unsigned = <<>> \/ ~IsDigit(Head(unsigned))
       THEN [isNaN |-> TRUE, n |-> 0]
       ELSE [isNaN |-> FALSE,
             n |-> IF negative THEN 0 - DigitsValue(unsigned, 0)
                   ELSE DigitsValue(unsigned, 0)]

InvalidAppendMode == [mode |-> "invalid", index |-> Undefined]

\* mutant: position 0 is accepted
getAppendModeFromZero(selected, insertIndex, columnCount) ==
    IF selected \in {"none", "end"}
    THEN [mode |-> "end", index |-> Num(columnCount)]
    ELSE IF insertIndex = <<>> THEN InvalidAppendMode
    ELSE LET parsed == ParseInt(insertIndex)
         IN IF parsed.isNaN \/ parsed.n < 0 THEN InvalidAppendMode
            ELSE [mode |-> "index",
                  index |-> Num(Min(parsed.n - 1, columnCount))]

\* selected is the checked appendMode radio ("none" when none is checked)
\* and insertIndex the text of the insertIndex input
getAppendMode(selected, insertIndex, columnCount) ==
    IF selected \in {"none", "end"}
    THEN [mode |-> "end", index |-> Num(columnCount)]
    ELSE IF insertIndex = <<>> THEN InvalidAppendMode
    ELSE LET parsed == ParseInt(insertIndex)
         IN IF parsed.isNaN \/ parsed.n < 1 THEN InvalidAppendMode
            ELSE [mode |-> "index",
                  index |-> Num(Min(parsed.n - 1, columnCount))]

\* the values the directory's answers carry in the model are strings,
\* numbers, null and fields left out
formatFieldValue(fieldKey, rawValue) ==
    IF rawValue.t \in {"undefined", "null"} THEN <<>> ELSE ToStr(rawValue)

\* The profile the directory returns for an identifier it knows: its mail
\* is the identifier, its job title is null, its surname a letter and every
\* other field is left out.
Profile(identifier) ==
    [fieldKey \in {fieldDefinitions[k].key : k \in 1..Len(fieldDefinitions)} |->
        IF fieldKey = "mail" THEN Str(identifier)
        ELSE IF fieldKey = "jobTitle" THEN JsNull
        ELSE IF fieldKey = "surname" THEN Str(<<"s">>)
        ELSE Undefined]

\* no call of fetchProfileData yet
NoProfileFetch ==
    [pc |-> "idle", exit |-> "none", buttonEvaluated |-> FALSE,
     selectedFields |-> <<>>, fieldLabels |-> <<>>,
     appendMode |-> InvalidAppendMode, emailColumnIndex |-> 0 - 1,
     rowCount |-> 0, index |-> 0, identifiers |-> <<>>, tried |-> 0,
     lastError |-> FALSE, valuesByField |-> <<>>, errors |-> <<>>,
     lookedUp |-> <<>>, requests |-> <<>>]

\* the call's locals after lines 830-866
StartedFetch(selectedFields, appendMode, emailColumnIndex, rowCount) ==
    LET fieldLabels == [k \in 1..Len(selectedFields) |-> FieldLabel(selectedFields[k])]
    IN [NoProfileFetch EXCEPT
          !.pc = "loop",
          !.selectedFields = selectedFields,
          !.fieldLabels = fieldLabels,
          !.appendMode = appendMode,
          !.emailColumnIndex = emailColumnIndex,
          !.rowCount = rowCount,
          !.valuesByField =
              [label \in {fieldLabels[k] : k \in 1..Len(fieldLabels)} |->
                  [i \in 1..rowCount |-> <<>>]]]

RowIdAt(rs, index) == IF InRange(rs, index) THEN rs[index + 1].id ELSE 0

\* the row at index has an email to look up
HasEmail(cols, rs, index, emailColumnIndex) ==
    Trim(getCellValue(cols, rs, index, emailColumnIndex)) # <<>>

\* the index of the first row from index on that has an email, the number
\* of rows when there is none
NextWithEmail(f, cols, rs) ==
    LET withEmail == {i \in f.index..(f.rowCount - 1) :
                         HasEmail(cols, rs, i, f.emailColumnIndex)}
    IN IF withEmail = {} THEN f.rowCount
       ELSE CHOOSE i \in withEmail : \A j \in withEmail : i <= j

\* lookupContext.identifiers of the row at index next, if there is one
IdentifiersAt(f, cols, rs, next, loginDomain) ==
    IF next >= f.rowCount THEN <<>>
    ELSE buildLookupContext(Str(getCellValue(cols, rs, next, f.emailColumnIndex)),
                            loginDomain).identifiers

\* The for loop over the rows from the head of an iteration to its first
\* await, at the row next with its identifiers, or to the loop's end: the
\* rows without an email before next record an issue each and are passed
\* over. lookedUp records, for each index, the row that was at that index
\* when its email cell was read; requests records the calls of
\* fetchUserProfile.
NextLookup(f, cols, rs, next, identifiers) ==
    LET lastRead == Min(next, f.rowCount - 1)
        read == [k \in 1..(lastRead - f.index + 1) |->
                   [index |-> f.index + k - 1,
                    row |-> RowIdAt(rs, f.index + k - 1),
                    email |-> getCellValue(cols, rs, f.index + k - 1,
                                           f.emailColumnIndex)]]
        missing == [k \in 1..(next - f.index) |->
                      [index |-> f.index + k - 1, issue |-> "missing email"]]
    IN IF next >= f.rowCount
       THEN [f EXCEPT !.pc = "apply",
                      !.index = next,
                      !.lookedUp = @ \o read,
                      !.errors = @ \o missing]
       ELSE [f EXCEPT !.pc = "awaiting",
                      !.index = next,
                      !.lookedUp = @ \o read,
                      !.errors = @ \o missing,
                      !.identifiers = identifiers,
                      !.tried = 0,
                      !.lastError = FALSE,
                      !.requests = Append(@, [index |-> next,
                                              identifier |-> identifiers[1],
                                              outcome |-> "pending"])]

\* selectedFields.forEach(... valuesByField[label][index] = ...)
WriteProfile(f, profile) ==
    [f EXCEPT !.valuesByField =
        [label \in DOMAIN f.valuesByField |->
            LET fields == {k \in 1..Len(f.selectedFields) :
                              f.fieldLabels[k] = label}
                fieldKey == f.selectedFields[CHOOSE k \in fields :
                                                \A j \in fields : j <= k]
            IN [f.valuesByField[label] EXCEPT ![f.index + 1] =
                   formatFieldValue(fieldKey, profile[fieldKey])]]]

\* valuesByField as applyFieldValues receives it
ValueLookup(f) ==
    [label \in DOMAIN f.valuesByField |->
        Arr([i \in 1..Len(f.valuesByField[label]) |->
                Str(f.valuesByField[label][i])])]

\* a step of the handlers below: op names the handler
Step(a, op) == [a EXCEPT !.op = op]

\* Lines 926-944: the collected values are applied, the status tells how
\* the fetch ended, and the finally block hides the overlay and
\* re-evaluates the fetch button.
FinishFetch(f, op) ==
    /\ \E valuesByField \in {ValueLookup(f)} :
          ApplyFieldValuesOnTable(Arr(f.fieldLabels), valuesByField, f.appendMode)
    /\ app' = [Step(app, op) EXCEPT
                 !.loadingOverlay = FALSE,
                 !.fetchStatus = IF f.errors # <<>> THEN "warning" ELSE "success"]
    /\ profileFetch' = [f EXCEPT !.pc = "idle", !.exit = "completed",
                                 !.buttonEvaluated = TRUE]

\* The loop goes on from f until its next await, where the overlay and the
\* status show the row being fetched, or ends.
ContinueFetch(f, op) ==
    \E next \in {NextWithEmail(f, columns, rows)} :
    \E identifiers \in {IdentifiersAt(f, columns, rows, next, app.loginDomain)} :
    \E g \in {NextLookup(f, columns, rows, next, identifiers)} :
       IF g.pc = "awaiting"
       THEN /\ app' = [Step(app, op) EXCEPT !.loadingOverlay = TRUE,
                                            !.fetchStatus = "info"]
            /\ profileFetch' = g
            /\ UNCHANGED table
       ELSE FinishFetch(g, op)

\* The click on the fetch button. One call is under way at a time.
FetchProfileData ==
    /\ profileFetch.pc = "idle"
    /\ \E appendMode \in {getAppendMode(app.appendMode, app.insertIndex,
                                        Len(columns))} :
       \E emailColumnIndex \in {findEmailColumn(columns)} :
          IF \/ app.accessToken = <<>>
             \/ ~hasData
             \/ app.selectedFields = <<>>
             \/ appendMode.mode = "invalid"
             \/ emailColumnIndex = 0 - 1
             \/ Len(rows) = 0
          THEN /\ app' = [Step(app, "fetchProfileData") EXCEPT
                             !.fetchStatus = "error"]
               /\ profileFetch' = [NoProfileFetch EXCEPT !.exit = "precondition"]
               /\ UNCHANGED table
          ELSE ContinueFetch(StartedFetch(app.selectedFields, appendMode,
                                          emailColumnIndex, Len(rows)),
                             "fetchProfileData")
    /\ UNCHANGED <<fileUpload, chart>>

\* mutant: the loop goes on to the next identifier after a profile
SettledKeepingOn(f, outcome) ==
    IF f.tried + 1 < Len(f.identifiers)
    THEN [f EXCEPT !.tried = @ + 1,
                   !.lastError = @ \/ outcome = "error",
                   !.requests = Append(@, [index |-> f.index,
                                           identifier |-> f.identifiers[f.tried + 2],
                                           outcome |-> "pending"])]
    ELSE IF outcome = "profile"
    THEN [WriteProfile(f, Profile(f.identifiers[f.tried + 1])) EXCEPT
             !.pc = "loop", !.index = @ + 1]
    ELSE [f EXCEPT !.pc = "loop",
                   !.errors = Append(@, [index |-> f.index,
                                         issue |-> IF f.lastError \/ outcome = "error"
                                                   THEN "error" ELSE "not found"]),
                   !.index = @ + 1]

\* The call after fetchUserProfile settled for the identifier tried: with
\* a profile the values are written and the row is done; after a 404
\* (null) or a thrown error the next identifier is asked, and after the
\* last one the row records an issue.
Settled(f, outcome) ==
    IF outcome = "profile"
    THEN [WriteProfile(f, Profile(f.identifiers[f.tried + 1])) EXCEPT
             !.pc = "loop", !.index = @ + 1]
    ELSE IF f.tried + 1 < Len(f.identifiers)
    THEN [f EXCEPT !.tried = @ + 1,
                   !.lastError = @ \/ outcome = "error",
                   !.requests = Append(@, [index |-> f.index,
                                           identifier |-> f.identifiers[f.tried + 2],
                                           outcome |-> "pending"])]
    ELSE [f EXCEPT !.pc = "loop",
                   !.errors = Append(@, [index |-> f.index,
                                         issue |-> IF f.lastError \/ outcome = "error"
                                                   THEN "error" ELSE "not found"]),
                   !.index = @ + 1]

\* fetchUserProfile settles: the directory answers the pending request
\* with a profile, with 404, or the request fails.
FetchUserProfileSettles(outcome) ==
    /\ profileFetch.pc = "awaiting"
    /\ \E f \in {Settled([profileFetch EXCEPT
                             !.requests[Len(profileFetch.requests)].outcome = outcome],
                         outcome)} :
          IF f.pc = "awaiting"
          THEN /\ profileFetch' = f
               /\ app' = Step(app, "fetchUserProfile")
               /\ UNCHANGED table
          ELSE ContinueFetch(f, "fetchUserProfile")
    /\ UNCHANGED <<fileUpload, chart>>

\* the token input's listener
TokenInput(token) ==
    /\ app' = [Step(app, "tokenInput") EXCEPT
                 !.accessToken = Trim(token.text),
                 !.loginDomain = IF Trim(token.text) # <<>>
                                 THEN extractDomainFromToken(token) ELSE <<>>]
    /\ UNCHANGED <<table, profileFetch, fileUpload, chart>>

\* the field checkboxes, checked in the page's order
FieldsChange(selectedFields) ==
    /\ app' = [Step(app, "fieldsChange") EXCEPT !.selectedFields = selectedFields]
    /\ UNCHANGED <<table, profileFetch, fileUpload, chart>>

\* an appendMode radio is chosen: updateAppendModeUI empties the insertIndex
\* input unless the radio is 'index'
AppendModeChange(selected) ==
    /\ app' = [Step(app, "appendModeChange") EXCEPT
                 !.appendMode = selected,
                 !.insertIndex = IF selected = "index" THEN @ ELSE <<>>]
    /\ UNCHANGED <<table, profileFetch, fileUpload, chart>>

\* the insertIndex input, enabled while the 'index' radio is chosen
InsertIndexInput(value) ==
    /\ app.appendMode = "index"
    /\ app' = [Step(app, "insertIndexInput") EXCEPT !.insertIndex = value]
    /\ UNCHANGED <<table, profileFetch, fileUpload, chart>>

\* no file chosen yet
NoFileUpload ==
    [pc |-> "idle", file |-> [extension |-> "", rejects |-> FALSE, rows |-> <<>>]]

\* cleanParsedRows
cleanParsedRows(parsed) ==
    LET cleaned == [k \in 1..Len(parsed) |->
                      IF parsed[k].isArray
                      THEN [j \in 1..Len(parsed[k].items) |->
                              IF parsed[k].items[j].t \in {"undefined", "null"}
                              THEN Str(<<>>) ELSE parsed[k].items[j]]
                      ELSE <<>>]
        HasContent(row) == \E j \in 1..Len(row) : row[j] # Str(<<>>)
    IN SelectSeq(cleaned, HasContent)

\* dataRows.map(row => columns.map(...)).filter(...)
FilteredRows(dataRows, columnCount) ==
    LET mapped == [k \in 1..Len(dataRows) |->
                     [j \in 1..columnCount |->
                         IF j <= Len(dataRows[k]) THEN dataRows[k][j]
                         ELSE Str(<<>>)]]
        HasContent(row) == \E j \in 1..Len(row) : row[j] # Str(<<>>)
    IN SelectSeq(mapped, HasContent)

\* A file is its extension and what its parser will do with it: reject, or
\* resolve with rows. The change of the file input: an unsupported
\* extension is reported and nothing is shown; otherwise the overlay is
\* shown and the parser started.
HandleFileUpload(file) ==
    /\ fileUpload.pc = "idle"
    /\ IF file.extension \notin {"csv", "xlsx", "xls"}
       THEN /\ app' = [Step(app, "handleFileUpload") EXCEPT !.loadStatus = "error"]
            /\ UNCHANGED fileUpload
       ELSE /\ app' = [Step(app, "handleFileUpload") EXCEPT
                          !.loadStatus = "info", !.loadingOverlay = TRUE]
            /\ fileUpload' = [pc |-> "parsing", file |-> file]
    /\ UNCHANGED <<table, profileFetch, chart>>

\* the then and catch callbacks of the parser's promise, and what the
\* status of the load becomes
FileLoads(file) ==
    /\ ~file.rejects
    /\ \E cleaned \in {cleanParsedRows(file.rows)} :
          /\ cleaned # <<>>
          /\ Head(cleaned) # <<>>
          /\ FilteredRows(Tail(cleaned), Len(Head(cleaned))) # <<>>

\* mutant: the overlay is hidden by the then callback only
FileParsedHidingOnSuccess ==
    /\ fileUpload.pc = "parsing"
    /\ IF FileLoads(fileUpload.file)
       THEN \E cleaned \in {cleanParsedRows(fileUpload.file.rows)} :
              /\ LoadDataOnTable(
                     Arr([j \in 1..Len(Head(cleaned)) |->
                            Str(ColumnLabel(Head(cleaned)[j], j - 1))]),
                     Arr([k \in 1..Len(FilteredRows(Tail(cleaned), Len(Head(cleaned)))) |->
                            Arr(FilteredRows(Tail(cleaned), Len(Head(cleaned)))[k])]))
              /\ app' = [Step(app, "fileParsed") EXCEPT
                           !.loadStatus = "success", !.fetchStatus = "",
                           !.loadingOverlay = FALSE]
       ELSE /\ app' = [Step(app, "fileParsed") EXCEPT !.loadStatus = "error"]
            /\ UNCHANGED table
    /\ fileUpload' = [pc |-> "idle", file |-> fileUpload.file]
    /\ UNCHANGED <<profileFetch, chart>>

\* The parser's promise settles: the rows are loaded into the table, or the
\* catch callback reports why not; the finally callback hides the overlay.
FileParsed ==
    /\ fileUpload.pc = "parsing"
    /\ IF FileLoads(fileUpload.file)
       THEN \E cleaned \in {cleanParsedRows(fileUpload.file.rows)} :
              /\ LoadDataOnTable(
                     Arr([j \in 1..Len(Head(cleaned)) |->
                            Str(ColumnLabel(Head(cleaned)[j], j - 1))]),
                     Arr([k \in 1..Len(FilteredRows(Tail(cleaned), Len(Head(cleaned)))) |->
                            Arr(FilteredRows(Tail(cleaned), Len(Head(cleaned)))[k])]))
              /\ app' = [Step(app, "fileParsed") EXCEPT
                           !.loadStatus = "success", !.fetchStatus = "",
                           !.loadingOverlay = FALSE]
       ELSE /\ app' = [Step(app, "fileParsed") EXCEPT
                          !.loadStatus = "error", !.loadingOverlay = FALSE]
            /\ UNCHANGED table
    /\ fileUpload' = [pc |-> "idle", file |-> fileUpload.file]
    /\ UNCHANGED <<profileFetch, chart>>

\* ------------------------------------------------------------- the inputs

RECURSIVE SeqsUpTo(_, _)
\* the sequences of at most n elements of S
SeqsUpTo(S, n) ==
    IF n = 0 THEN {<<>>}
    ELSE LET shorter == SeqsUpTo(S, n - 1)
         IN shorter \cup {Append(q, x) : q \in shorter, x \in S}

StrArr(q) == Arr([k \in 1..Len(q) |-> Str(q[k])])

\* the loads of tables with the headers H, whose rows are as wide as the
\* header, hold the cell texts C and are at most n
Tables(H, C, n) ==
    UNION {{<<StrArr(h), Arr(q)>> :
              q \in SeqsUpTo({StrArr(r) : r \in {c \in SeqsUpTo(C, Len(h)) : Len(c) = Len(h)}}, n)}
           : h \in H}

\* ------------------------------------------------------ the specifications

Init ==
    /\ columns = <<>>
    /\ rows = <<>>
    /\ selectedRows = {}
    /\ sortState = UnsortedState
    /\ headCells = 0
    /\ bodyRows = <<>>
    /\ last = [op |-> "clear", args |-> <<>>, ret |-> Undefined, notify |-> 1]
    /\ exported = NothingExported
    /\ licensedUsernames = {}
    /\ orgData = <<>>
    /\ filteredOrgData = <<>>
    /\ hierarchyData = NoNode
    /\ orgFetch = [directory |-> [directReports |-> <<>>, department |-> <<>>],
                   startingUser |-> 0, maxUsers |-> 0, maxDepth |-> 0,
                   status |-> "idle"]
    /\ filterNoDepartment = TRUE
    /\ emailHistory = <<>>
    /\ emailSaves = <<>>
    /\ tree = NoTree
    /\ treeOp = [op |-> "none", email |-> <<>>]
    /\ expandedDepthFrontier = 1
    /\ tierLog = NoTierLog
    /\ app = [accessToken |-> <<>>, loginDomain |-> <<>>,
              selectedFields |-> <<>>, appendMode |-> "end",
              insertIndex |-> <<>>, loadingOverlay |-> FALSE,
              fetchStatus |-> "", loadStatus |-> "", op |-> "initialize"]
    /\ profileFetch = NoProfileFetch
    /\ fileUpload = NoFileUpload

\* the table was cleared and nothing has been done to it since
Cleared == last.op = "clear"

\* the row ids a behaviour can hold
RowIdPool == 1..(2 * (MaxRows + MaxSortRows + MaxLoadRows))

Select ==
    \/ \E row \in RowIdPool, shouldSelect \in BOOLEAN :
         ToggleRowSelection(row, shouldSelect)
    \/ \E checked \in BOOLEAN : HandleSelectAll(checked)

Sort == \E columnIndex \in 0..(MaxCols - 1) : HandleSort(columnIndex)

\* --- Spec: every operation, in any order, on small tables and few inputs

TableInputs ==
    Tables({<<>>, <<<<"a">>>>, <<<<"a">>, <<"A">>>>}, {<<"a">>}, MaxRows)

Next ==
    \/ Clear
    \/ \E input \in TableInputs : LoadData(input[1], input[2])
    \/ \E preferredIndex \in {Num(0), Undefined} :
         EnsureColumn(<<"b">>, preferredIndex)
    \/ \E columnIndex \in {0, Len(columns)} :
         SetColumnValues(columnIndex, <<Num(2)>>)
    \/ \E options \in {[mode |-> "end", index |-> Undefined],
                       [mode |-> "index", index |-> Num(0)]} :
         ApplyFieldValues(Arr(<<<<"A">>, <<"b">>>>),
                          [l \in {<<"b">>} |-> Arr(<<Str(<<"a">>)>>)], options)
    \/ Sort
    \/ Select
    \/ RemoveSelectedRows

Spec == Init /\ [][Next]_vars

\* --- SpecColumns: ensureColumn with all its inputs, on tables whose rows
\* setColumnValues may have widened

ColumnNames == {<<"a">>, <<"A">>, <<"b">>}

PreferredIndexes == {Num(k) : k \in (0 - 1)..(MaxCols + 1)} \cup {Undefined}

ColumnIndexes == (0 - 1)..MaxCols

ValueArrays == {<<>>, <<Num(2), JsNull, Str(<<"a">>)>>}

ColumnTableInputs ==
    Tables({<<>>, <<<<"a">>>>, <<<<"c">>, <<"a">>>>, <<<<"a">>, <<"A">>>>},
           {<<"a">>, <<"2">>}, MaxRows)

NextColumns ==
    \/ Clear
    \/ Cleared /\ \E input \in ColumnTableInputs : LoadData(input[1], input[2])
    \/ \E columnName \in ColumnNames, preferredIndex \in PreferredIndexes :
         EnsureColumn(columnName, preferredIndex)
    \/ \E columnIndex \in ColumnIndexes, values \in ValueArrays :
         SetColumnValues(columnIndex, values)

SpecColumns == Init /\ [][NextColumns]_vars

\* --- SpecSort: tables with ties, digits and letters, and the sort

SortTableInputs ==
    Tables({<<<<"a">>>>}, {<<"a">>, <<"A">>, <<"2">>, <<"1", "0">>}, MaxSortRows)
    \cup Tables({<<<<"a">>, <<"b">>>>}, {<<"a">>, <<"A">>, <<"2">>}, MaxSortRows)

NextSort ==
    \/ Clear
    \/ Cleared /\ \E input \in SortTableInputs : LoadData(input[1], input[2])
    \/ Sort

SpecSort == Init /\ [][NextSort]_vars

\* --- SpecSortEdit: the sort, and then columns inserted, cells overwritten
\* and rows deleted

SortEditTableInputs ==
    Tables({<<<<"a">>>>, <<<<"a">>, <<"c">>>>}, {<<"a">>, <<"2">>}, MaxRows)

NextSortEdit ==
    \/ Clear
    \/ Cleared /\ \E input \in SortEditTableInputs : LoadData(input[1], input[2])
    \/ Sort
    \/ sortState.columnIndex # NoColumn /\ last.op = "sort"
         /\ \/ \E preferredIndex \in {Num(0), Undefined} :
                 EnsureColumn(<<"b">>, preferredIndex)
            \/ \E columnIndex \in 0..(Len(columns) - 1) :
                 SetColumnValues(columnIndex, <<Str(<<"b">>), Str(<<"a">>)>>)
            \/ \E options \in {[mode |-> "end", index |-> Undefined],
                               [mode |-> "index", index |-> Num(0)]} :
                 ApplyFieldValues(Arr(<<<<"b">>>>),
                                  [l \in {<<"b">>} |->
                                      Arr(<<Str(<<"b">>), Str(<<"a">>)>>)],
                                  options)
    \/ sortState.columnIndex # NoColumn /\ Select
    \/ RemoveSelectedRows

SpecSortEdit == Init /\ [][NextSortEdit]_vars

\* --- SpecProfile: the profile fetch on a loaded table, under every answer
\* of the directory, until a fetch completes; nothing else touches the
\* table meanwhile

\* tokens: none, blanks, one without a sign-in name, one signed in at X
Tokens ==
    {[text |-> <<>>, domainSource |-> <<>>],
     [text |-> <<" ">>, domainSource |-> <<>>],
     [text |-> <<"t">>, domainSource |-> <<>>],
     [text |-> <<"t", " ">>, domainSource |-> <<"u", "@", "X">>]}

EmailCells == {<<>>, <<"A", "@", "X">>, <<" ", "b">>, <<"a", "@", "y">>}

ProfileTableInputs ==
    Tables({<<<<"u", "p", "n">>>>, <<<<"a">>>>}, EmailCells, MaxFetchRows)

FieldSelections == {<<>>, <<"mail">>, <<"jobTitle", "mail">>}

InsertIndexTexts == {<<>>, <<"0">>, <<"2">>, <<"x">>}

Outcomes == {"profile", "not found", "error"}

\* the page's inputs, left alone while a fetch is under way
PageInputs ==
    /\ profileFetch.pc = "idle"
    /\ \/ \E token \in Tokens : TokenInput(token)
       \/ \E selectedFields \in FieldSelections : FieldsChange(selectedFields)
       \/ \E selected \in {"end", "index"} : AppendModeChange(selected)
       \/ \E value \in InsertIndexTexts : InsertIndexInput(value)

NextProfile ==
    \/ Cleared /\ \E input \in ProfileTableInputs : LoadData(input[1], input[2])
    \/ profileFetch.exit = "none" /\ PageInputs
    \/ profileFetch.exit # "completed" /\ FetchProfileData
    \/ \E outcome \in Outcomes : FetchUserProfileSettles(outcome)

SpecProfile == Init /\ [][NextProfile]_vars

\* --- SpecRace: the table is sorted, rows are deleted and a new table is
\* loaded while fetchProfileData awaits the directory

RaceTableInputs ==
    Tables({<<<<"u", "p", "n">>>>}, {<<"b", "@", "x">>, <<"a", "@", "x">>},
           MaxFetchRows)

NextRace ==
    \/ Cleared /\ \E input \in RaceTableInputs : LoadData(input[1], input[2])
    \/ profileFetch.exit = "none" /\ profileFetch.pc = "idle"
         /\ \/ TokenInput([text |-> <<"t">>, domainSource |-> <<>>])
            \/ FieldsChange(<<"mail">>)
    \/ profileFetch.exit # "completed" /\ FetchProfileData
    \/ FetchUserProfileSettles("profile")
    \/ profileFetch.pc = "awaiting"
         /\ \/ Sort
            \/ Select
            \/ RemoveSelectedRows
            \/ last.op # "loadData" /\
                 \E input \in RaceTableInputs : LoadData(input[1], input[2])

SpecRace == Init /\ [][NextRace]_vars

\* --- SpecOverlay: files are uploaded and profiles fetched, each parser's
\* promise and each request to the directory settling in the end

\* the rows a parser resolves with: a header of two cells, a row that
\* cleanParsedRows drops, then MaxFetchRows rows, all with an email or
\* every second one without
ParsedRows ==
    {<<Arr(<<Str(<<"u", "p", "n">>), Str(<<"n">>)>>), Arr(<<JsNull>>)>>
       \o [k \in 1..MaxFetchRows |->
             Arr(<<Str(IF k % 2 = 0 /\ gaps THEN <<>> ELSE <<" ", "b">>), Num(k)>>)]
     : gaps \in BOOLEAN}

Files ==
    {[extension |-> "txt", rejects |-> FALSE, rows |-> <<>>],
     [extension |-> "csv", rejects |-> TRUE, rows |-> <<>>],
     [extension |-> "xlsx", rejects |-> FALSE, rows |-> <<NotArray>>]}
    \cup {[extension |-> "csv", rejects |-> FALSE, rows |-> q] : q \in ParsedRows}

\* Files that load a table are uploaded while the table is empty, and one
\* fetch is run to its end; files that load nothing are uploaded at any
\* time.
NextOverlay ==
    \/ \E file \in Files :
         /\ Cleared \/ ~FileLoads(file)
         /\ HandleFileUpload(file)
    \/ FileParsed
    \/ profileFetch.pc = "idle" /\ app.accessToken = <<>>
         /\ TokenInput([text |-> <<"t">>, domainSource |-> <<>>])
    \/ profileFetch.pc = "idle" /\ app.selectedFields = <<>>
         /\ FieldsChange(<<"mail">>)
    \/ profileFetch.exit # "completed" /\ FetchProfileData
    \/ \E outcome \in Outcomes : FetchUserProfileSettles(outcome)

\* the steps only
SpecOverlaySteps == Init /\ [][NextOverlay]_vars

\* fetch() and the parsers settle their promises: a request under way is
\* answered or fails, a file being read is parsed or refused
SpecOverlay ==
    /\ Init
    /\ [][NextOverlay]_vars
    /\ WF_vars(\E outcome \in Outcomes : FetchUserProfileSettles(outcome))
    /\ WF_vars(FileParsed)

\* --- SpecSelect: selection, sort and deletion

SelectTableInputs ==
    Tables({<<<<"a">>>>}, {<<"a">>, <<"2">>}, MaxSortRows)
    \cup Tables({<<<<"a">>, <<"b">>>>}, {<<"a">>, <<"2">>}, MaxRows)

NextSelect ==
    \/ Clear
    \/ Cleared /\ \E input \in SelectTableInputs : LoadData(input[1], input[2])
    \/ Sort
    \/ Select
    \/ RemoveSelectedRows

SpecSelect == Init /\ [][NextSelect]_vars

\* --- SpecLoad: loadData with every shape of argument

LoadColumnInputs ==
    {NotArray} \cup {Arr(q) : q \in SeqsUpTo({Str(<<"a">>), Str(<<>>), JsNull, Num(7)}, 2)}

LoadRowInputs ==
    {NotArray} \cup {Arr(q) : q \in SeqsUpTo({Str(<<"a">>), Num(10), Undefined}, 2)}

LoadRowsInputs ==
    {NotArray} \cup {Arr(q) : q \in SeqsUpTo(LoadRowInputs, MaxLoadRows)}

NextLoad ==
    \/ Clear
    \/ Cleared /\ \E newColumns \in LoadColumnInputs, newRows \in LoadRowsInputs :
                    LoadData(newColumns, newRows)

SpecLoad == Init /\ [][NextLoad]_vars

\* --- SpecApply: applyFieldValues with labels that are new, that exist and
\* that differ in case only, in both modes

ApplyTableInputs ==
    Tables({<<>>, <<<<"a">>>>, <<<<"a">>, <<"c">>>>, <<<<"c">>, <<"b">>>>},
           {<<"x">>}, MaxRows)

FieldLabels == {<<"a">>, <<"b">>, <<"B">>, <<"d">>}

FieldLabelArrays == {NotArray} \cup {Arr(q) : q \in SeqsUpTo(FieldLabels, MaxLabels)}

\* two lookups: arrays shorter than the rows, with undefined and null items,
\* and labels without an entry
ValueLookups ==
    {[l \in {<<"b">>, <<"B">>, <<"d">>} |->
        IF l = <<"b">> THEN Arr(<<Num(1), Str(<<"y">>)>>)
        ELSE IF l = <<"B">> THEN Arr(<<Str(<<"z">>)>>)
        ELSE Arr(<<JsNull, Num(20), Str(<<"w">>)>>)],
     [l \in {<<"a">>, <<"b">>} |->
        IF l = <<"a">> THEN Arr(<<Undefined, Str(<<"y">>), Str(<<"z">>)>>)
        ELSE NotArray]}

ApplyOptions ==
    {[mode |-> "end", index |-> Undefined]}
    \cup {[mode |-> "index", index |-> i] :
            i \in {Num(k) : k \in (0 - 1)..MaxCols} \cup {Undefined}}

NextApply ==
    \/ Clear
    \/ Cleared /\ \E input \in ApplyTableInputs : LoadData(input[1], input[2])
    \/ last.op = "loadData" /\
         \E fieldLabels \in FieldLabelArrays, valueLookup \in ValueLookups,
            options \in ApplyOptions :
              ApplyFieldValues(fieldLabels, valueLookup, options)

SpecApply == Init /\ [][NextApply]_vars

\* --- SpecReset: loads and clears of tables that are sorted and hold a
\* selection

ResetTableInputs ==
    Tables({<<<<"a">>>>}, {<<"a">>, <<"2">>}, MaxRows)
    \cup Tables({<<<<"a">>, <<"b">>>>}, {<<"a">>}, MaxRows)

NextReset ==
    \/ Clear
    \/ \E input \in ResetTableInputs : LoadData(input[1], input[2])
    \/ Sort
    \/ Select
    \/ RemoveSelectedRows

SpecReset == Init /\ [][NextReset]_vars

\* --- SpecEmail: findEmailColumn on headers of names that hold one, several
\* or none of the candidates

HeaderNames ==
    {<<"E", "-", "M", "a", "i", "l">>, <<"M", "a", "i", "l", " ", "2">>, <<"U", ".", "P", ".", "N">>,
     <<"N", "a", "m", "e">>, <<"s", "i", "g", "n", "I", "n", "N", "a", "m", "e">>,
     <<"U", "s", "e", "r", " ", "P", "r", "i", "n", "c", "i", "p", "a", "l", " ", "N", "a", "m", "e">>}

EmailTableInputs ==
    {<<StrArr(h), Arr(<<>>)>> : h \in SeqsUpTo(HeaderNames, MaxCols)}

NextEmail ==
    \/ Clear
    \/ Cleared /\ \E input \in EmailTableInputs : LoadData(input[1], input[2])
    \/ FindEmailColumn

SpecEmail == Init /\ [][NextEmail]_vars

\* --- SpecExport: snapshots of tables with a selection, and what their
\* holder writes to them

ExportTableInputs ==
    Tables({<<>>, <<<<"a">>>>}, {<<"a">>, <<"2">>}, MaxRows)
    \cup Tables({<<<<"a">>, <<"b">>>>}, {<<"a">>}, MaxRows)

NextExport ==
    \/ Clear
    \/ Cleared /\ \E input \in ExportTableInputs : LoadData(input[1], input[2])
    \/ Sort
    \/ \E checked \in BOOLEAN : HandleSelectAll(checked)
    \/ GetDataForExport
    \/ MutateExported

SpecExport == Init /\ [][NextExport]_vars

\* --- SpecOrg: fetchOrgData on directories in which a user reports to
\* several managers or to a report of its own, under every cap

MaxOrgUsers == 3    \* users of the directory

\* what the directory answers for a user: up to two different users, the
\* user not among them
DirectReportLists(user) ==
    {reports \in SeqsUpTo(1..MaxOrgUsers, 2) :
        /\ \A k \in 1..Len(reports) : reports[k] # user
        /\ Len(reports) = 2 => reports[1] # reports[2]}

Directories ==
    {[directReports |-> directReports,
      department |-> [user \in 1..MaxOrgUsers |-> "Sales"]] :
        directReports \in
          {d \in [1..MaxOrgUsers -> SeqsUpTo(1..MaxOrgUsers, 2)] :
              \A user \in 1..MaxOrgUsers : d[user] \in DirectReportLists(user)}}

\* the options of the page's maxDepth select
MaxDepths == {2, 3, 4, 999}

NextOrg ==
    /\ orgFetch.status = "idle"
    /\ \E directory \in Directories, maxUsers \in 1..(MaxOrgUsers + 1),
          maxDepth \in MaxDepths :
            \/ FetchOrgData(directory, 1, maxUsers, maxDepth)
            \/ /\ \A user \in 1..MaxOrgUsers : directory.directReports[user] = <<>>
               /\ FetchOrgData(directory, 0, maxUsers, maxDepth)

SpecOrg == Init /\ [][NextOrg]_vars

\* --- SpecTree: the chart of a fetched organization, in which a user
\* reports to users before it, some users have no department and some a
\* license, and the clicks on its nodes

\* what the directory answers for a user: up to two of the users after it
TreeDirectories ==
    {[directReports |-> directReports, department |-> department] :
        directReports \in
          {d \in [1..MaxOrgUsers -> SeqsUpTo(2..MaxOrgUsers, 2)] :
              \A user \in 1..MaxOrgUsers :
                 \A k \in 1..Len(d[user]) : d[user][k] > user},
        department \in
          {[user \in 1..MaxOrgUsers |-> "Sales"],
           [user \in 1..MaxOrgUsers |-> IF user = 2 THEN "" ELSE "Sales"]}}

NextTree ==
    \/ /\ orgFetch.status = "idle" /\ licensedUsernames = {}
       /\ \E usernames \in {{2}, {1, MaxOrgUsers}} : HandleCsvUpload(usernames)
    \/ /\ orgFetch.status = "idle"
       /\ \E directory \in TreeDirectories, maxUsers \in 1..(MaxOrgUsers + 1),
             maxDepth \in MaxDepths :
               FetchOrgData(directory, 1, maxUsers, maxDepth)
    \/ \E user \in 0..MaxOrgUsers :
         ToggleNode(IF user = 0 THEN OrganizationRoot(<<>>).email ELSE Email(user))

SpecTree == Init /\ [][NextTree]_vars

\* --- SpecTiers: the tier commands and the clicks on the chart of a fetched
\* organization, every user of which passes the filters

NextTiers ==
    \/ /\ orgFetch.status = "idle"
       /\ \E directory \in TreeDirectories :
             /\ \A user \in 1..MaxOrgUsers : directory.department[user] # ""
             /\ FetchOrgData(directory, 1, MaxOrgUsers + 1, 999)
    \/ \E user \in 1..MaxOrgUsers : ToggleNode(Email(user))
    \/ expandedDepthFrontier <= MaxOrgUsers /\ ExpandOneTier
    \/ CollapseOneTier

SpecTiers == Init /\ [][NextTiers]_vars

\* --- SpecHistory: saves of more emails than the history keeps, each new
\* email after the ones before it, and saves of emails saved before, as long
\* as at most one email stands before a newer one

MaxEmails == 11    \* different emails

HistoryEmails == [n \in 1..MaxEmails |-> Email(n)]

\* the number of one of the emails
EmailNumber(email) == CHOOSE n \in 1..MaxEmails : HistoryEmails[n] = email

\* how many emails of saves stand right before an email that is newer
Ascents(saves) ==
    Cardinality({k \in 1..(Len(saves) - 1) :
                    EmailNumber(saves[k]) < EmailNumber(saves[k + 1])})

NextHistory ==
    \/ \E n \in 1..MaxEmails :
         /\ \/ n = Len(emailSaves) + 1
            \/ n <= Len(emailSaves) /\ Ascents(emailSaves) <= 1
         /\ SaveEmailToHistory(HistoryEmails[n])
    \/ emailSaves # <<>> /\ Len(emailSaves) <= 2 /\ ClearEmailHistory

SpecHistory == Init /\ [][NextHistory]_vars

\* --- SpecFilter: fetchOrgData on organizations in which any users have no
\* department, and the changes of the filter checkboxes

FilterDirectories ==
    {[directReports |-> directory.directReports, department |-> department] :
        directory \in TreeDirectories,
        department \in [1..MaxOrgUsers -> {"Sales", ""}]}

FilterIds == {"filterNoDept", "filterInterns", "filterNoTitle"}

NextFilter ==
    \/ /\ orgFetch.status = "idle"
       /\ \E directory \in FilterDirectories, maxDepth \in MaxDepths :
             FetchOrgData(directory, 1, MaxOrgUsers + 1, maxDepth)
    \/ \E id \in FilterIds, checked \in BOOLEAN : HandleFilterChange(id, checked)

SpecFilter == Init /\ [][NextFilter]_vars

\* ------------------------------------------------------------- properties

\* seq without its element at the 0-based index i
Without(seq, i) == SubSeq(seq, 1, i) \o SubSeq(seq, i + 2, Len(seq))

\* the text the sort reads in column c of a row
SortText(row, c) == formatCell(CellAt(row.cells, c))

\* all rows of rs compare equal in column c
AllEqual(rs, c) ==
    \A i, j \in 1..Len(rs) :
        collatorCompare(SortText(rs[i], c), SortText(rs[j], c)) = 0

\* 1-based position in rs of the row object id
PositionOf(rs, id) == CHOOSE k \in 1..Len(rs) : rs[k].id = id

\* C1: in every reachable state every row is as long as the column list.
C1_RowWidthIsColumnCount ==
    \A k \in 1..Len(rows) : Len(rows[k].cells) = Len(columns)

\* C2: after loadData(columns, rows) with two arrays there are rows.length
\* rows of columns.length cells each; cell i is the string form of input
\* cell i, the empty string where the input cell is missing, null or
\* undefined or where the row is not an array; surplus cells are dropped.
C2_LoadNormalizesRows ==
    (last.op = "loadData" /\ last.args[1].isArray /\ last.args[2].isArray) =>
        LET width == Len(last.args[1].items)
            input == last.args[2].items
        IN /\ Len(rows) = Len(input)
           /\ \A k \in 1..Len(rows) :
                /\ Len(rows[k].cells) = width
                /\ \A i \in 1..width :
                     rows[k].cells[i] =
                        IF input[k].isArray /\ i <= Len(input[k].items)
                           /\ input[k].items[i].t \in {"string", "number"}
                        THEN ToStr(input[k].items[i])
                        ELSE <<>>

C2_Witness ==
    /\ last.op = "loadData" /\ last.args[1].isArray /\ last.args[2].isArray
    /\ Len(columns) = 2 /\ Len(rows) = 2
    /\ ~last.args[2].items[1].isArray
    /\ last.args[2].items[2] = Arr(<<Num(10)>>)
    /\ rows[2].cells = <<<<"1", "0">>, <<>>>>

\* C3 as stated: every sort on a column whose cells all compare equal leaves
\* the row order unchanged, the repeated (descending) sort included.
C3_SortOfEqualCellsKeepsOrder ==
    [][(last'.op = "sort" /\ AllEqual(rows, last'.args[1])) => rows' = rows]_vars

\* C3 as amended: on a column whose cells all compare equal an ascending
\* sort leaves the row order unchanged and a descending sort reverses it.
C3_SortOfEqualCellsKeepsOrReverses ==
    [][(last'.op = "sort" /\ AllEqual(rows, last'.args[1])) =>
          rows' = IF sortState'.direction = "asc" THEN rows ELSE Reverse(rows)]_vars

C3_Witness ==
    /\ last.op = "sort" /\ sortState.direction = "desc"
    /\ Len(rows) = 3
    /\ AllEqual(rows, sortState.columnIndex)
    /\ rows[1].id > rows[2].id /\ rows[2].id > rows[3].id

\* C4: a sort of the column that was just sorted ascending (so a descending
\* sort) leaves exactly the reverse of the ascending-sorted row sequence.
C4_DescendingIsReverseOfAscending ==
    [][(/\ last.op = "sort" /\ sortState.direction = "asc"
        /\ last'.op = "sort" /\ last'.args[1] = sortState.columnIndex)
       => rows' = Reverse(rows)]_vars

C4_Witness ==
    /\ last.op = "sort" /\ sortState.direction = "desc"
    /\ Len(rows) = 3
    /\ collatorCompare(SortText(rows[1], sortState.columnIndex),
                       SortText(rows[2], sortState.columnIndex)) = 0
    /\ collatorCompare(SortText(rows[2], sortState.columnIndex),
                       SortText(rows[3], sortState.columnIndex)) > 0

\* C5: a sort of column c leaves the sort state (c, d): d is descending when
\* the state was (c, ascending), and ascending otherwise.
C5_DirectionFollowsPreviousState ==
    [][last'.op = "sort" =>
          /\ sortState'.columnIndex = last'.args[1]
          /\ sortState'.direction =
               IF sortState.columnIndex # last'.args[1] THEN "asc"
               ELSE IF sortState.direction = "asc" THEN "desc" ELSE "asc"]_vars

C5_Witness ==
    /\ last.op = "sort"
    /\ sortState = [columnIndex |-> 1, direction |-> "desc"]
    /\ Len(columns) = 2

\* C6: a sort only permutes the rows: the same row objects with the same
\* cells, and the same selection.
C6_SortOnlyPermutes ==
    [][last'.op = "sort" =>
          /\ Len(rows') = Len(rows)
          /\ \A k \in 1..Len(rows) : \E j \in 1..Len(rows') : rows'[j] = rows[k]
          /\ selectedRows' = selectedRows
          /\ columns' = columns]_vars

C6_Witness ==
    /\ last.op = "sort"
    /\ Len(rows) = 3
    /\ rows[1].id > rows[2].id
    /\ selectedRows # {} /\ selectedRows # RowIds(rows)

\* C7: deleteSelectedRows removes exactly the selected rows, keeps the others
\* in their order with their cells, and empties the selection; with an empty
\* selection it changes nothing.
C7_DeleteRemovesExactlySelected ==
    [][last'.op = "deleteSelectedRows" =>
          IF selectedRows = {}
          THEN UNCHANGED <<columns, rows, selectedRows, sortState>>
          ELSE /\ RowIds(rows') = RowIds(rows) \ selectedRows
               /\ Len(rows') = Cardinality(RowIds(rows'))
               /\ \A k \in 1..Len(rows') : rows'[k] = rows[PositionOf(rows, rows'[k].id)]
               /\ \A i, j \in 1..Len(rows') :
                    i < j => PositionOf(rows, rows'[i].id) < PositionOf(rows, rows'[j].id)
               /\ selectedRows' = {}
               /\ columns' = columns]_vars

C7_Witness ==
    /\ last.op = "deleteSelectedRows" /\ last.notify = 1
    /\ Len(rows) = 2
    /\ rows[1].id > rows[2].id
    /\ selectedRows = {}

\* C8: ensureColumn is idempotent: on every table and for every name and
\* preferred index a second call returns what the first returned and leaves
\* the columns and rows as the first left them.
C8_EnsureColumnIdempotent ==
    \A columnName \in ColumnNames, preferredIndex \in PreferredIndexes :
        LET first == ensureColumn(columns, rows, columnName, preferredIndex)
            second == ensureColumn(first.columns, first.rows, columnName, preferredIndex)
        IN /\ second.ret = first.ret
           /\ second.columns = first.columns
           /\ second.rows = first.rows

C8_Witness ==
    /\ last.op = "ensureColumn" /\ last.ret = 0
    /\ columns = <<<<"b">>, <<"c">>, <<"a">>>>
    /\ Len(rows) = 2
    /\ ensureColumn(columns, rows, <<"A">>, Num(0)).ret = 2

\* C9: when no column matches the name case-insensitively, ensureColumn
\* inserts it at k = clamp(preferredIndex, 0, columnCount) (columnCount when
\* the index is not a number), puts an empty cell at k in every row, keeps the
\* other columns and cells in their order and returns k; when a column
\* matches it returns that column's index and changes nothing.
C9_EnsureColumnInsertsAtClampedIndex ==
    \A columnName \in ColumnNames, preferredIndex \in PreferredIndexes :
        LET r == ensureColumn(columns, rows, columnName, preferredIndex)
            matches == {k \in 1..Len(columns) :
                          ToLowerCase(columns[k]) = ToLowerCase(columnName)}
            wanted == IF preferredIndex.t = "number" THEN preferredIndex.n
                      ELSE Len(columns)
            k == IF wanted < 0 THEN 0
                 ELSE IF wanted > Len(columns) THEN Len(columns) ELSE wanted
        IN IF matches # {}
           THEN /\ r.ret + 1 \in matches
                /\ r.columns = columns
                /\ r.rows = rows
           ELSE /\ r.ret = k
                /\ Len(r.columns) = Len(columns) + 1
                /\ At(r.columns, k) = columnName
                /\ Without(r.columns, k) = columns
                /\ Len(r.rows) = Len(rows)
                /\ \A i \in 1..Len(rows) :
                     /\ r.rows[i].id = rows[i].id
                     /\ At(r.rows[i].cells, k) = <<>>
                     /\ Without(r.rows[i].cells, k) = rows[i].cells

C9_Witness ==
    /\ last.op = "ensureColumn" /\ last.ret = 1
    /\ columns = <<<<"c">>, <<"b">>, <<"a">>>>
    /\ Len(rows) = 2
    /\ rows[1].cells = <<<<"a">>, <<>>, <<"2">>>>

\* C10: in every reachable state the column labels are pairwise distinct
\* when compared case-insensitively.
C10_LabelsDistinctIgnoringCase ==
    \A i, j \in 1..Len(columns) :
        i # j => ToLowerCase(columns[i]) # ToLowerCase(columns[j])

\* the 0-based index of the first column whose label equals label when case
\* is ignored, NoColumn when there is none
ColumnOf(cols, label) ==
    IF \E k \in 1..Len(cols) : ToLowerCase(cols[k]) = ToLowerCase(label)
    THEN (CHOOSE k \in 1..Len(cols) :
            /\ ToLowerCase(cols[k]) = ToLowerCase(label)
            /\ \A j \in 1..(k - 1) : ToLowerCase(cols[j]) # ToLowerCase(label)) - 1
    ELSE NoColumn

\* the text of valueLookup[label][r]: the empty string when the lookup has no
\* array for the label, the array no item r, or the item is undefined or null
ValueText(valueLookup, label, r) ==
    IF /\ label \in DOMAIN valueLookup
       /\ valueLookup[label].isArray
       /\ r < Len(valueLookup[label].items)
       /\ valueLookup[label].items[r + 1].t \in {"string", "number"}
    THEN ToStr(valueLookup[label].items[r + 1])
    ELSE <<>>

\* applyFieldValues has just run through its labels
Applied == last.op = "applyFieldValues" /\ last.notify = 1

\* C11 as stated: after applyFieldValues(labels, valuesByLabel, mode), for
\* every label that occurs once in labels and every row r, the cell of row r
\* in the label's column is the text of valuesByLabel[label][r].
C11_AppliedValuesOfLabelsOccurringOnce ==
    Applied =>
        LET labels == last.args[1].items
        IN \A i \in 1..Len(labels) :
              (\A j \in 1..Len(labels) : j # i => labels[j] # labels[i]) =>
                 /\ ColumnOf(columns, labels[i]) # NoColumn
                 /\ \A r \in 1..Len(rows) :
                      CellAt(rows[r].cells, ColumnOf(columns, labels[i])) =
                         Str(ValueText(last.args[2], labels[i], r - 1))

\* C11 as amended: the same for every label that no other label of labels
\* equals when case is ignored.
C11_AppliedValuesOfLabelsOccurringOnceIgnoringCase ==
    Applied =>
        LET labels == last.args[1].items
        IN \A i \in 1..Len(labels) :
              (\A j \in 1..Len(labels) :
                  j # i => ToLowerCase(labels[j]) # ToLowerCase(labels[i])) =>
                 /\ ColumnOf(columns, labels[i]) # NoColumn
                 /\ \A r \in 1..Len(rows) :
                      CellAt(rows[r].cells, ColumnOf(columns, labels[i])) =
                         Str(ValueText(last.args[2], labels[i], r - 1))

C11_Witness ==
    /\ Applied
    /\ last.args[1] = Arr(<<<<"d">>, <<"b">>, <<"B">>>>)
    /\ last.args[3] = [mode |-> "index", index |-> Num(1)]
    /\ columns = <<<<"a">>, <<"d">>, <<"b">>>>
    /\ Len(rows) = 2
    /\ rows[1].cells = <<<<"x">>, <<>>, <<"z">>>>
    /\ rows[2].cells = <<<<"x">>, <<"2", "0">>, <<>>>>

\* the labels of an applyFieldValues call in index mode sit in consecutive
\* columns of cols, in their order
Consecutive(cols, labels) ==
    \A i \in 2..Len(labels) :
        /\ ColumnOf(cols, labels[i - 1]) # NoColumn
        /\ ColumnOf(cols, labels[i]) = ColumnOf(cols, labels[i - 1]) + 1

\* C12 as stated, read for labels no two of which are equal when case is
\* ignored: after applyFieldValues in index mode each label after the first
\* sits in the column right after the column of the label before it,
\* whatever the starting table.
C12_IndexModeLabelsConsecutive ==
    [][(/\ last'.op = "applyFieldValues" /\ last'.notify = 1
        /\ last'.args[3].mode = "index"
        /\ \A i, j \in 1..Len(last'.args[1].items) :
              j # i => ToLowerCase(last'.args[1].items[j]) #
                       ToLowerCase(last'.args[1].items[i]))
       => Consecutive(columns', last'.args[1].items)]_vars

\* C12 as amended: the same when no label matches a column of the starting
\* table and no two labels are equal when case is ignored; the first label
\* then sits at the index clamped to 0..columnCount (columnCount when the
\* index is undefined).
C12_IndexModeNewLabelsConsecutive ==
    [][(/\ last'.op = "applyFieldValues" /\ last'.notify = 1
        /\ last'.args[3].mode = "index"
        /\ \A i \in 1..Len(last'.args[1].items) :
              /\ ColumnOf(columns, last'.args[1].items[i]) = NoColumn
              /\ \A j \in 1..Len(last'.args[1].items) :
                    j # i => ToLowerCase(last'.args[1].items[j]) #
                             ToLowerCase(last'.args[1].items[i]))
       => /\ Consecutive(columns', last'.args[1].items)
          /\ ColumnOf(columns', last'.args[1].items[1]) =
                LET index == last'.args[3].index
                IN IF index.t # "number" \/ index.n > Len(columns)
                   THEN Len(columns)
                   ELSE IF index.n < 0 THEN 0 ELSE index.n]_vars

C12_Witness ==
    /\ Applied
    /\ last.args[1] = Arr(<<<<"d">>, <<"B">>>>)
    /\ last.args[3] = [mode |-> "index", index |-> Num(0)]
    /\ columns = <<<<"d">>, <<"B">>, <<"a">>>>
    /\ Len(rows) = 2

\* C13: after every loadData and every clear, whatever the state before, the
\* selection is empty, the sort state is unsorted, and no row object of the
\* table or selection before is in the rows or the selection.
C13_LoadAndClearReset ==
    [][last'.op \in {"loadData", "clear"} =>
          /\ selectedRows' = {}
          /\ sortState' = [columnIndex |-> NoColumn, direction |-> "asc"]
          /\ (RowIds(rows') \cup selectedRows')
                \cap (RowIds(rows) \cup selectedRows) = {}]_vars

C13_Witness ==
    /\ last.op = "loadData"
    /\ Len(rows) = 2
    /\ rows[1].id = 3 /\ rows[2].id = 4
    /\ selectedRows = {} /\ sortState = UnsortedState

\* C14: after loadData with a columns argument or a rows argument that is
\* not an array the table has no rows and hasData() is false.
C14_NonArrayLoadLeavesEmptyTable ==
    (last.op = "loadData" /\ (~last.args[1].isArray \/ ~last.args[2].isArray)) =>
        Len(rows) = 0 /\ ~hasData

\* C15: every step that changes the columns, the rows, the selection or the
\* sort state dispatches a 'datatable:change' event.
C15_MutationsNotify ==
    [][<<columns, rows, selectedRows, sortState>>' #
         <<columns, rows, selectedRows, sortState>> => last'.notify >= 1]_vars

\* the 1-based positions of the candidates that some column of cols includes
\* once normalized
MatchingCandidates(cols) ==
    {m \in 1..Len(PreferredMatches) :
        \E k \in 1..Len(cols) :
           Includes(normalizeColumnName(cols[k]), PreferredMatches[m])}

\* the least element of a non-empty set of integers
Least(S) == CHOOSE x \in S : \A y \in S : x <= y

\* C16: findEmailColumn returns the lowest index of a column that includes
\* the first candidate, in the order email, mail, userprincipalname,
\* signinname, upn, that any normalized column name includes, and -1 exactly
\* when no column includes a candidate.
C16_FindEmailColumnByPriority ==
    last.op = "findEmailColumn" =>
        IF MatchingCandidates(columns) = {}
        THEN last.ret = 0 - 1
        ELSE LET m == Least(MatchingCandidates(columns))
             IN last.ret + 1 =
                  Least({k \in 1..Len(columns) :
                           Includes(normalizeColumnName(columns[k]),
                                    PreferredMatches[m])})

C16_Witness ==
    /\ last.op = "findEmailColumn"
    /\ columns = <<<<"U", ".", "P", ".", "N">>, <<"M", "a", "i", "l", " ", "2">>, <<"E", "-", "M", "a", "i", "l">>>>
    /\ last.ret = 2

\* C17: getDataForExport returns the current columns and the current rows'
\* cells in the current order and changes nothing, and no write to the
\* arrays it returned changes the columns, the rows or the selection.
C17_ExportIsACopy ==
    [][/\ last'.op = "getDataForExport" =>
            /\ exported'.columns.items = columns'
            /\ Len(exported'.rows.items) = Len(rows')
            /\ \A k \in 1..Len(rows') :
                  exported'.rows.items[k].cells = rows'[k].cells
            /\ UNCHANGED <<columns, rows, selectedRows>>
       /\ last'.op = "mutateExported" =>
            UNCHANGED <<columns, rows, selectedRows>>]_vars

C17_Witness ==
    /\ last.op = "mutateExported"
    /\ Len(rows) = 2 /\ Len(exported.rows.items) = 2
    /\ rows[1].cells = <<<<"a">>, <<"a">>>>
    /\ exported.rows.items[1].cells = <<<<"x">>, <<"a">>>>
    /\ exported.columns.items = columns
    /\ selectedRows = RowIds(rows)

\* C18: a toggle of a row's selection adds or removes that row object and
\* no other, rows with the same cells included; select-all(true) leaves the
\* selection equal to the set of all rows and select-all(false) leaves it
\* empty; neither changes the rows.
C18_SelectionIsByRowIdentity ==
    [][/\ last'.op = "toggleRowSelection" =>
            /\ last'.args[1] \in RowIds(rows)
            /\ selectedRows' = IF last'.args[2]
                                THEN selectedRows \cup {last'.args[1]}
                                ELSE selectedRows \ {last'.args[1]}
            /\ UNCHANGED <<columns, rows>>
       /\ last'.op = "selectAll" =>
            /\ selectedRows' = IF last'.args[1] THEN RowIds(rows) ELSE {}
            /\ UNCHANGED <<columns, rows>>]_vars

C18_Witness ==
    /\ last.op = "toggleRowSelection" /\ last.args[2]
    /\ Len(rows) = 3
    /\ rows[1].cells = rows[2].cells /\ rows[2].cells = rows[3].cells
    /\ selectedRows = {rows[2].id}

RECURSIVE NodeEmails(_)
RECURSIVE NodesEmails(_)
\* the emails of the nodes of a hierarchy, one entry for each node
NodeEmails(node) ==
    IF node = NoNode THEN <<>> ELSE <<node.email>> \o NodesEmails(node.children)

NodesEmails(nodes) ==
    IF nodes = <<>> THEN <<>>
    ELSE NodeEmails(Head(nodes)) \o NodesEmails(Tail(nodes))

\* how many entries of seq are x
Occurrences(seq, x) == Cardinality({k \in 1..Len(seq) : seq[k] = x})

\* C19: after a completed fetchOrgData every record of orgData has exactly
\* one node of the hierarchy with its email and every node of the hierarchy
\* exactly one record of orgData.
C19_RecordsAndNodesInSync ==
    orgFetch.status = "done" =>
        LET nodeEmails == NodeEmails(hierarchyData)
            recordEmails == [k \in 1..Len(orgData) |-> orgData[k].email]
        IN /\ \A k \in 1..Len(recordEmails) :
                Occurrences(nodeEmails, recordEmails[k]) = 1
           /\ \A k \in 1..Len(nodeEmails) :
                Occurrences(recordEmails, nodeEmails[k]) = 1

\* the chart's node with this email
RECURSIVE FindNode(_, _)
FindNode(nodes, email) ==
    IF nodes = <<>> THEN NoTree
    ELSE IF Head(nodes).email = email THEN Head(nodes)
    ELSE FindNode(Head(nodes).children \o Head(nodes).collapsedChildren
                  \o Tail(nodes), email)

\* C20: a toggleNode on any node leaves countDescendants and
\* countLicensedDescendants of every node of the chart as they were, the
\* toggled node and its ancestors included.
C20_CountsUnchangedByToggle ==
    [][treeOp'.op = "toggleNode" =>
          \A k \in 1..Len(TreeEmails(tree)) :
             LET before == FindNode(<<tree>>, TreeEmails(tree)[k])
                 after == FindNode(<<tree'>>, TreeEmails(tree)[k])
             IN /\ after.email = before.email
                /\ countDescendants(after) = countDescendants(before)
                /\ countLicensedDescendants(after) = countLicensedDescendants(before)]_vars

C20_Witness ==
    /\ treeOp.op = "toggleNode"
    /\ tree.children = <<>> /\ Len(tree.collapsedChildren) = 1
    /\ Len(tree.collapsedChildren[1].children) = 1
    /\ countDescendants(tree) = 2
    /\ countLicensedDescendants(tree) = 1

\* every node of depth >= frontier, visible or hidden, shows no children
RECURSIVE CollapsedBelow(_, _, _)
CollapsedBelow(node, depth, frontier) ==
    /\ depth >= frontier => node.children = <<>>
    /\ \A k \in 1..Len(node.children) :
          CollapsedBelow(node.children[k], depth + 1, frontier)
    /\ \A k \in 1..Len(node.collapsedChildren) :
          CollapsedBelow(node.collapsedChildren[k], depth + 1, frontier)

\* every node of depth < frontier, visible or hidden, hides no children
RECURSIVE ExpandedAbove(_, _, _)
ExpandedAbove(node, depth, frontier) ==
    /\ depth < frontier => node.collapsedChildren = <<>>
    /\ \A k \in 1..Len(node.children) :
          ExpandedAbove(node.children[k], depth + 1, frontier)
    /\ \A k \in 1..Len(node.collapsedChildren) :
          ExpandedAbove(node.collapsedChildren[k], depth + 1, frontier)

\* a collapseOneTier that came right after an expandOneTier
CollapseAfterExpand ==
    tierLog.op = "collapseOneTier" /\ tierLog.prevOp = "expandOneTier"

Rebuilt == rebuildHierarchy(hierarchyData, filteredOrgData)

\* these items and all below them are nodes, none of them an array
RECURSIVE OnlyNodes(_)
OnlyNodes(items) ==
    \A k \in 1..Len(items) :
       /\ "isArray" \notin DOMAIN items[k]
       /\ OnlyNodes(items[k].children)

\* the <<email, email of the parent>> of the nodes among these items and
\* below them, arrays counting for their items
RECURSIVE RebuiltParents(_, _)
RebuiltParents(items, parent) ==
    IF items = <<>> THEN <<>>
    ELSE (IF "isArray" \in DOMAIN Head(items)
          THEN RebuiltParents(Head(items).items, parent)
          ELSE <<(<<Head(items).email, parent>>)>>
               \o RebuiltParents(Head(items).children, Head(items).email))
         \o RebuiltParents(Tail(items), parent)

\* the <<email, email of the nearest retained ancestor>> of the retained
\* nodes among these nodes of the hierarchy and below them
RECURSIVE RetainedParents(_, _, _)
RetainedParents(nodes, ancestor, retained) ==
    IF nodes = <<>> THEN <<>>
    ELSE (IF Head(nodes).email \in retained
          THEN <<(<<Head(nodes).email, ancestor>>)>>
               \o RetainedParents(Head(nodes).children, Head(nodes).email, retained)
          ELSE RetainedParents(Head(nodes).children, ancestor, retained))
         \o RetainedParents(Tail(nodes), ancestor, retained)

\* C22: after fetchOrgData and after a filter change on fetched data, what
\* rebuildHierarchy makes of the hierarchy has only nodes in it, and its
\* nodes are the retained users of the hierarchy, each once and below its
\* nearest retained ancestor, in the order of the hierarchy.
C22_RebuiltHierarchyWellFormed ==
    hierarchyData # NoNode =>
       /\ OnlyNodes(Rebuilt.items)
       /\ RebuiltParents(Rebuilt.items, <<>>)
            = RetainedParents(<<hierarchyData>>, <<>>,
                              {filteredOrgData[k].email : k \in 1..Len(filteredOrgData)})

\* the depth of the deepest node below node, node being at depth
RECURSIVE DeepestNode(_, _)
RECURSIVE DeepestNodeIn(_, _)
DeepestNode(node, depth) == Max(depth, DeepestNodeIn(node.children, depth + 1))

DeepestNodeIn(nodes, depth) ==
    IF nodes = <<>> THEN 0
    ELSE Max(DeepestNode(Head(nodes), depth), DeepestNodeIn(Tail(nodes), depth))

\* C24: after fetchOrgData with maxUsers >= 1, orgData, which only grows
\* during the fetch, has at most maxUsers records, and every node of the
\* hierarchy lies at a depth < maxDepth.
C24_UserAndDepthCaps ==
    orgFetch.status # "idle" /\ orgFetch.maxUsers >= 1 =>
       /\ Len(orgData) <= orgFetch.maxUsers
       /\ hierarchyData # NoNode =>
             DeepestNode(hierarchyData, 0) < orgFetch.maxDepth

C24_Witness ==
    /\ orgFetch.status = "done"
    /\ orgFetch.maxUsers = 3 /\ Len(orgData) = 3
    /\ orgFetch.maxDepth = 2 /\ DeepestNode(hierarchyData, 0) = 1
    /\ Len(orgFetch.directory.directReports[1]) = 2
    /\ orgFetch.directory.directReports[2] # <<>>

\* the ids of the nodes of the hierarchy
RECURSIVE NodeIds(_)
RECURSIVE NodesIds(_)
NodeIds(node) ==
    IF node = NoNode THEN <<>> ELSE <<node.id>> \o NodesIds(node.children)

NodesIds(nodes) ==
    IF nodes = <<>> THEN <<>>
    ELSE NodeIds(Head(nodes)) \o NodesIds(Tail(nodes))

\* C25: fetchOrgData comes to an end on every directory, also when a user
\* is among the reports of its own report or of several managers, and no id
\* is the id of two nodes of the hierarchy it built.
C25_EachUserExpandedOnce ==
    orgFetch.status # "idle" =>
       \A k \in 1..Len(NodeIds(hierarchyData)) :
          Occurrences(NodeIds(hierarchyData), NodeIds(hierarchyData)[k]) = 1

\* a report of the starting user lists the starting user, who was fetched a
\* second time and not expanded again, with room left under both caps
C25_Witness ==
    /\ orgFetch.status = "done"
    /\ Len(orgData) < orgFetch.maxUsers
    /\ orgFetch.maxDepth = 999
    /\ \E k \in 2..Len(orgData) : orgData[k].id = 1
    /\ Len(NodeIds(hierarchyData)) = 2

\* the place of email in saves, 0 when it is not there
PlaceIn(saves, email) ==
    IF \E k \in 1..Len(saves) : saves[k] = email
    THEN CHOOSE k \in 1..Len(saves) : saves[k] = email
    ELSE 0

\* C26: the stored history has at most 10 emails, none of them twice; its
\* first is the email saved last; and of two of its emails the one saved
\* more recently comes first.
C26_HistoryIsRecentSavesFirst ==
    /\ Len(emailHistory) <= 10
    /\ \A j, k \in 1..Len(emailHistory) :
          j < k => /\ emailHistory[j] # emailHistory[k]
                   /\ PlaceIn(emailSaves, emailHistory[j]) > 0
                   /\ PlaceIn(emailSaves, emailHistory[j])
                        < PlaceIn(emailSaves, emailHistory[k])
    /\ emailSaves # <<>> =>
          emailHistory # <<>> /\ emailHistory[1] = emailSaves[1]

\* the eleventh email pushed the first out, then the first was saved again
C26_Witness ==
    /\ Len(emailSaves) = 11
    /\ Len(emailHistory) = 10
    /\ emailHistory[1] = Email(1)
    /\ emailHistory[2] = Email(11)
    /\ emailHistory[10] = Email(3)

\* the rows are in the order of their cells of the column, in the direction
OrderedBy(rs, columnIndex, direction) ==
    \A k \in 1..(Len(rs) - 1) :
       DirectionFactor(direction)
         * collatorCompare(formatCell(CellAt(rs[k].cells, columnIndex)),
                           formatCell(CellAt(rs[k + 1].cells, columnIndex))) <= 0

\* C30: whenever the sort state names a column and a direction, the rows
\* are in the order of their cells of that column, in that direction.
C30_SortStateDesignatesTheOrder ==
    sortState.columnIndex # NoColumn =>
       OrderedBy(rows, sortState.columnIndex, sortState.direction)

\* a step of the handler named op
StepOf(op) == app'.op = op /\ controller' # controller

\* the text of the insertIndex input is no position: it is empty, starts
\* with no number, or its number is less than 1
NoPosition(text) ==
    \/ text = <<>>
    \/ ParseInt(text).isNaN
    \/ ParseInt(text).n < 1

\* a precondition of fetchProfileData fails
PreconditionFails ==
    \/ app.accessToken = <<>>
    \/ columns = <<>> \/ rows = <<>>
    \/ app.selectedFields = <<>>
    \/ app.appendMode = "index" /\ NoPosition(app.insertIndex)
    \/ findEmailColumn(columns) = 0 - 1

\* C28: when a precondition fails (no access token, a table without data,
\* no selected field, an invalid insert position, no email column),
\* fetchProfileData leaves the table as it is, issues no network request
\* and reports an error status.
C28_FailedPreconditionLeavesTable ==
    [][StepOf("fetchProfileData") /\ PreconditionFails =>
          /\ UNCHANGED <<columns, rows, selectedRows, sortState, headCells,
                         bodyRows, exported>>
          /\ profileFetch'.requests = <<>>
          /\ profileFetch'.pc = "idle"
          /\ app'.fetchStatus = "error"]_vars

\* with a token, data, a field and an email column, position 0 was refused
C28_Witness ==
    /\ profileFetch.exit = "precondition"
    /\ app.fetchStatus = "error"
    /\ app.accessToken # <<>>
    /\ hasData
    /\ findEmailColumn(columns) # 0 - 1
    /\ app.selectedFields # <<>>
    /\ app.appendMode = "index"
    /\ app.insertIndex = <<"0">>

\* the requests issued for the row at index, in the order they were issued
RequestsFor(requests, index) ==
    LET ForIndex(request) == request.index = index
    IN SelectSeq(requests, ForIndex)

\* the identifiers of an email cell: the email without the blanks around
\* it, then its local part at the sign-in domain when that is another
\* address, whatever the case of the letters
Identifiers(email, domain) ==
    LET trimmed == Trim(email)
        at == IndexOf(trimmed, "@")
        localPart == IF at = 0 - 1 THEN trimmed ELSE SubSeq(trimmed, 1, at)
        swapped == localPart \o <<"@">> \o domain
    IN IF trimmed = <<>> THEN <<>>
       ELSE IF domain = <<>> \/ localPart = <<>>
               \/ ToLowerCase(swapped) = ToLowerCase(trimmed)
       THEN <<trimmed>>
       ELSE <<trimmed, swapped>>

\* the fetch is past the row at index
RowDone(index) == profileFetch.pc = "idle" \/ profileFetch.index > index

HasIssue(index) ==
    \E k \in 1..Len(profileFetch.errors) : profileFetch.errors[k].index = index

\* C29: for each row the identifiers are queried in order, the trimmed
\* email first and then local-part@sign-in-domain when it differs
\* case-insensitively; no identifier is queried after one returned a
\* profile, a 404 or an error does not prevent trying the next one, and a
\* row records an issue only if no identifier returned a profile, every
\* selected field of that row then being the empty string.
C29_IdentifiersTriedInOrder ==
    \A j \in 1..Len(profileFetch.lookedUp) :
       LET index == profileFetch.lookedUp[j].index
           expected == Identifiers(profileFetch.lookedUp[j].email,
                                   NormalizedDomain(app.loginDomain))
           issued == RequestsFor(profileFetch.requests, index)
           found == \E k \in 1..Len(issued) : issued[k].outcome = "profile"
       IN /\ Len(issued) <= Len(expected)
          /\ \A k \in 1..Len(issued) : issued[k].identifier = expected[k]
          /\ \A k \in 1..(Len(issued) - 1) :
                issued[k].outcome \in {"not found", "error"}
          /\ RowDone(index) =>
                /\ found \/ Len(issued) = Len(expected)
                /\ HasIssue(index) <=> ~found
                /\ ~found =>
                     \A label \in DOMAIN profileFetch.valuesByField :
                        /\ profileFetch.valuesByField[label][index + 1] = <<>>
                        /\ profileFetch.exit = "completed" =>
                             rows[index + 1].cells[
                                 FindColumn(columns, ToLowerCase(label)) + 1] = <<>>

\* a fetch ended whose first row was found under its second identifier,
\* after an error on the first, and whose second row was found under
\* neither of its two
C29_Witness ==
    /\ profileFetch.exit = "completed"
    /\ Len(profileFetch.requests) = 4
    /\ profileFetch.requests[1].outcome = "error"
    /\ profileFetch.requests[2].outcome = "profile"
    /\ profileFetch.requests[3].outcome = "not found"
    /\ profileFetch.requests[4].outcome = "not found"
    /\ HasIssue(1) /\ ~HasIssue(0)
    /\ Len(profileFetch.fieldLabels) = 2

\* the fetch found a profile for the row at index
Found(index) ==
    \E k \in 1..Len(profileFetch.requests) :
       /\ profileFetch.requests[k].index = index
       /\ profileFetch.requests[k].outcome = "profile"

\* C23: when applyFieldValues has run at the end of a fetch, the values
\* fetched at each index are in the row whose email cell was read for that
\* index, whatever was sorted, deleted or loaded while the fetch awaited
\* the directory.
C23_ValuesWrittenToTheRowLookedUp ==
    profileFetch.exit = "completed" /\ last.op = "applyFieldValues" =>
       \A j \in 1..Len(profileFetch.lookedUp) :
          LET index == profileFetch.lookedUp[j].index
          IN Found(index) /\ index < Len(rows) =>
                rows[index + 1].id = profileFetch.lookedUp[j].row

\* C27: the loading overlay shown by fetchProfileData or handleFileUpload
\* is hidden again in the end, whether the lookups succeed, fail or throw
\* and whether the file is loaded, refused or empty; and a fetch that
\* showed the overlay ends with the overlay hidden and the fetch button
\* state evaluated again.
C27_OverlayHiddenInTheEnd ==
    /\ app.loadingOverlay ~> ~app.loadingOverlay
    /\ profileFetch.pc = "awaiting" ~> profileFetch.exit = "completed"
    /\ fileUpload.pc = "parsing" ~> fileUpload.pc = "idle"
    /\ [][/\ profileFetch'.exit = "completed" /\ profileFetch' # profileFetch =>
                ~app'.loadingOverlay /\ profileFetch'.buttonEvaluated
          /\ fileUpload.pc = "parsing" /\ fileUpload'.pc = "idle" =>
                ~app'.loadingOverlay]_vars

\* a fetch ended, one request having failed and one row having no email,
\* after a file was refused; the overlay is hidden
C27_Witness ==
    /\ profileFetch.exit = "completed"
    /\ profileFetch.buttonEvaluated
    /\ \E k \in 1..Len(profileFetch.requests) :
          profileFetch.requests[k].outcome = "error"
    /\ \E k \in 1..Len(profileFetch.errors) :
          profileFetch.errors[k].issue = "missing email"
    /\ app.loadStatus = "error"
    /\ ~app.loadingOverlay

====
